---- MODULE Spec2Model ----
(***************************************************************************)
(* Model of ai-team-orchestrator: the worker pool                          *)
(* (src/src/claude-pool.ts, class ClaudePool; specifications Spec and      *)
(* LifecycleSpec) and the task orchestration flow (AgentOrchestrator,      *)
(* TasksController, TaskDatabase; specifications OrchSpec, SprintSpec,     *)
(* SprintFairSpec, OverlapSpec and ChainFairSpec), and the agent           *)
(* registry with its rule engine, pattern tracker and performance records  *)
(* (src/src/agent-registry.ts, class AgentRegistry; specifications         *)
(* RuleSpec, PatternSpec, MeanSpec, PerfSpec, PermSpec and SuggestSpec).   *)
(*                                                                         *)
(* Node.js runs every callback to completion, so each action below is one  *)
(* callback (a public method call, a timer, a child-process event or a     *)
(* stdout 'data' event) together with everything it calls synchronously.   *)
(* The promise continuation `.then(task.resolve)` of processQueue runs as  *)
(* a microtask before any other event and is folded into the completing    *)
(* step.                                                                   *)
(***************************************************************************)
EXTENDS Integers, Sequences, FiniteSets, TLC

\* ------------------------------------------------------------------ bounds
\* poolSize of the singleton: parseInt(process.env.CLAUDE_POOL_SIZE || '2')
PoolSize == 2
\* number of runTask calls explored
MaxSubs == 3
\* number of child processes ever spawned (initial ones plus respawns)
MaxProcs == 3
\* Date.now() is far above the initial indices 0..poolSize-1, so the ids
\* `pool-${i}` and `pool-${Date.now()}` never coincide
ClockBase == 1000

VARIABLES
    procs,          \* every child process spawned so far, with its PooledClaude
    pool,           \* this.pool: Map<string, PooledClaude> in insertion order
    taskQueue,      \* this.taskQueue
    isShuttingDown, \* this.isShuttingDown
    respawnTimers,  \* pending setTimeout(() => this.spawnInstance(...), 1000)
    now,            \* number of distinct Date.now() values used for ids
    subs,           \* every runTask call so far (its promise and closure)
    initState       \* the promise returned by initialize()

\* state of the task orchestration flow (AgentOrchestrator, TasksController,
\* TaskDatabase, AgentRegistry); the pool is never called from that flow
VARIABLES
    tasks,          \* TaskDatabase: every task created so far, in creation order
    runs,           \* every AgentOrchestrator.runAgent call so far
    followUps,      \* pending setTimeout(() => this.runAgent(nextAgent, ...), 1000)
    perf,           \* AgentRegistry: performance.tasksCompleted of each agent
    patternTracker, \* AgentRegistry.patternTracker: occurrences of the pattern
    onNotification  \* whether the orchestrator was given a notification sink

\* state of the agent registry (AgentRegistry) and of the runAgent calls
\* that use it
VARIABLES
    memRules,       \* this.memRules: Map<string, SelfImprovementRule>, in order
    memAgents,      \* the stored AgentDefinition of each identity, if any
    memSkills,      \* this.memSkills: the skills created so far, in order
    patterns,       \* this.patternTracker: Map<string, PatternTracker>
    redis,          \* this.redis: whether an external store is connected, and
                    \* the AgentDefinition it holds under each agent key
    regRuns,        \* registry calls in progress or finished, in call order
    evals,          \* what the last evaluateRules call was given and returned
    regLog          \* the trackPattern / recordTaskCompletion calls made so far

poolVars == <<procs, pool, taskQueue, isShuttingDown, respawnTimers, now, subs,
              initState>>
orchVars == <<tasks, runs, followUps, perf, patternTracker, onNotification>>
regVars == <<memRules, memAgents, memSkills, patterns, redis, regRuns, evals,
             regLog>>
vars == <<procs, pool, taskQueue, isShuttingDown, respawnTimers, now, subs,
          initState, tasks, runs, followUps, perf, patternTracker,
          onNotification, memRules, memAgents, memSkills, patterns, redis,
          regRuns, evals, regLog>>

\* worker identities known to the registry: "dev" stands for any identity
\* that is not terminal, "pm" is the planning identity
Agents == {"dev", "pm"}

\* the orchestration flow after construction, before any call (no
\* notification sink was passed to the constructor)
OrchIdle ==
    /\ tasks = <<>>
    /\ runs = <<>>
    /\ followUps = <<>>
    /\ perf = [a \in Agents |-> 0]
    /\ patternTracker = 0
    /\ onNotification = FALSE

\* ------------------------------------------------- double-precision numbers
\* JavaScript numbers are IEEE 754 doubles: every arithmetic operation
\* returns the representable value nearest to the exact result, ties going
\* to the even significand.  Execution times and counters are far from the
\* subnormal and overflow ranges, which are not modelled.  Naturals too
\* large for one machine word are written as sequences of digits.
\* number of significand bits of a double
Precision == 53
\* a double: the value m * 2^e, where the significand m is a natural of
\* exactly Precision bits written as digits, most significant first; zero
\* has no digits
FZero == [m |-> <<>>, e |-> 0]
\* bits per digit of a large natural
DigitBits == 16
Radix == 2 ^ DigitBits

ZeroDigits(k) == [i \in 1..k |-> 0]

RECURSIVE StripLeading(_)
StripLeading(a) ==
    IF a # <<>> /\ Head(a) = 0 THEN StripLeading(Tail(a)) ELSE a

RECURSIVE NatToDigits(_)
NatToDigits(n) ==
    IF n = 0 THEN <<>> ELSE Append(NatToDigits(n \div Radix), n % Radix)

\* the digit of weight Radix^i
DigitAt(a, i) == IF i < Len(a) THEN a[Len(a) - i] ELSE 0

RECURSIVE AddFrom(_, _, _, _, _)
AddFrom(a, b, i, carry, acc) ==
    IF i >= Len(a) /\ i >= Len(b)
    THEN IF carry = 0 THEN acc ELSE <<carry>> \o acc
    ELSE LET sum == DigitAt(a, i) + DigitAt(b, i) + carry
         IN  AddFrom(a, b, i + 1, sum \div Radix, <<sum % Radix>> \o acc)

\* exact sum of two naturals
BigAdd(a, b) == AddFrom(a, b, 0, 0, <<>>)

RECURSIVE MulFrom(_, _, _, _, _)
MulFrom(a, k, i, carry, acc) ==
    IF i >= Len(a)
    THEN IF carry = 0 THEN acc ELSE <<carry>> \o acc
    ELSE LET prod == DigitAt(a, i) * k + carry
         IN  MulFrom(a, k, i + 1, prod \div Radix, <<prod % Radix>> \o acc)

\* exact product of a natural and a small natural (k < 2^14)
BigMul(a, k) == StripLeading(MulFrom(a, k, 0, 0, <<>>))

RECURSIVE DivFrom(_, _, _, _, _)
DivFrom(a, n, i, rem, acc) ==
    IF i > Len(a) THEN [q |-> StripLeading(acc), r |-> rem]
    ELSE LET cur == rem * Radix + a[i]
         IN  DivFrom(a, n, i + 1, cur % n, Append(acc, cur \div n))

\* quotient and remainder of a natural by a small natural (0 < n < 2^14)
BigDiv(a, n) == DivFrom(a, n, 1, 0, <<>>)

\* number of bits of a natural below Radix, and of a large natural
SmallBitLen(x) == CHOOSE k \in 0..DigitBits : x < 2 ^ k /\ (k = 0 \/ x >= 2 ^ (k - 1))
BitLen(a) ==
    IF a = <<>> THEN 0 ELSE DigitBits * (Len(a) - 1) + SmallBitLen(Head(a))

\* a * 2^s
ShiftLeft(a, s) ==
    BigMul(a, 2 ^ (s % DigitBits)) \o
        (IF a = <<>> THEN <<>> ELSE ZeroDigits(s \div DigitBits))

\* a \div 2^s, and whether a bit was shifted out
ShiftRight(a, s) ==
    LET whole == s \div DigitBits
        kept == SubSeq(a, 1, Len(a) - whole)
        d == BigDiv(kept, 2 ^ (s % DigitBits))
    IN  [q |-> d.q,
         lost |-> d.r # 0 \/ \E i \in (Len(a) - whole + 1)..Len(a) : a[i] # 0]

\* the double of the exact value a * 2^e, a of at most Precision bits
Normal(a, e) ==
    IF a = <<>> THEN FZero
    ELSE [m |-> ShiftLeft(a, Precision - BitLen(a)),
          e |-> e - (Precision - BitLen(a))]

\* round to nearest, ties to even: the double nearest to the exact value,
\* which is a * 2^e, or lies strictly between it and (a + 1) * 2^e if sticky
RoundToDouble(a, e, sticky) ==
    IF BitLen(a) <= Precision THEN Normal(a, e)
    ELSE LET drop == BitLen(a) - Precision
             cut == ShiftRight(a, drop - 1)
             top == BigDiv(cut.q, 2)
             odd == top.q[Len(top.q)] % 2 = 1
             up == top.r = 1 /\ (sticky \/ cut.lost \/ odd)
         IN  Normal(IF up THEN BigAdd(top.q, <<1>>) ELSE top.q, e + drop)

FloatOfNat(n) == RoundToDouble(NatToDigits(n), 0, FALSE)

\* x * k for a double x and a small natural k
FloatMul(x, k) == RoundToDouble(BigMul(x.m, k), x.e, FALSE)

\* x + t for a double x and a natural t
FloatAdd(x, t) ==
    LET low == IF x.e < 0 THEN x.e ELSE 0
    IN  RoundToDouble(BigAdd(ShiftLeft(x.m, x.e - low),
                             ShiftLeft(NatToDigits(t), 0 - low)), low, FALSE)

\* x / n for a double x and a small natural n > 0
FloatDiv(x, n) ==
    LET extra == DigitBits * 5
        d == BigDiv(ShiftLeft(x.m, extra), n)
    IN  RoundToDouble(d.q, x.e - extra, d.r # 0)

\* x < y and x <= y for doubles
FloatLess(x, y) ==
    /\ y # FZero
    /\ \/ x = FZero
       \/ x.e < y.e
       \/ x.e = y.e /\ \E i \in 1..Len(x.m) :
                         /\ x.m[i] < y.m[i]
                         /\ \A j \in 1..(i - 1) : x.m[j] = y.m[j]

FloatLessEq(x, y) == x = y \/ FloatLess(x, y)

\* ------------------------------------------- registry: values, rules, roles
\* a metric value or a threshold (metrics: Record<string, number | string>,
\* RuleCondition.value: number | string); Num(n, d) is the double nearest to
\* n / d, as the literals 5 and 0.8 denote; a metric that the map does not
\* hold reads as undefined
Number(x) == [typ |-> "number", x |-> x, s |-> ""]
Num(n, d) == Number(FloatDiv(FloatOfNat(n), d))
Str(s) == [typ |-> "string", x |-> FZero, s |-> s]
Undefined == [typ |-> "undefined", x |-> FZero, s |-> ""]
NaN == [typ |-> "NaN", x |-> FZero, s |-> ""]

Cond(metric, operator, value) ==
    [metric |-> metric, operator |-> operator, value |-> value]

\* a SelfImprovementRule; its description is also the reason it reports
RuleDef(id, action, conditions, autoApply) ==
    [id |-> id, action |-> action, conditions |-> conditions,
     autoApply |-> autoApply]

DEFAULT_RULES ==
    << RuleDef("create-specialist-on-repeated-domain", "create_agent",
               << Cond("domain_task_count", "gte", Num(5, 1)),
                  Cond("existing_specialist", "eq", Num(0, 1)) >>, FALSE),
       RuleDef("create-skill-on-repetition", "create_skill",
               << Cond("pattern_occurrence", "gte", Num(3, 1)),
                  Cond("existing_skill", "eq", Num(0, 1)) >>, TRUE),
       RuleDef("evolve-on-low-success", "evolve",
               << Cond("success_rate", "lt", Num(4, 5)),
                  Cond("tasks_completed", "gte", Num(10, 1)) >>, FALSE),
       RuleDef("suggest-delegation", "suggest",
               << Cond("pending_tasks", "gte", Num(5, 1)),
                  Cond("available_delegates", "gte", Num(1, 1)) >>, TRUE),
       RuleDef("docs-read-before-task", "suggest",
               << Cond("task_started", "eq", Num(1, 1)) >>, TRUE),
       RuleDef("docs-update-after-task", "suggest",
               << Cond("task_completed", "eq", Num(1, 1)) >>, TRUE) >>

\* the permissions of the roles the registry knows (this.memRoles)
RoleIds == {"manager", "specialist", "support"}
DEFAULT_ROLES ==
    [r \in RoleIds |->
        [canCreateAgents |-> r = "manager",
         canCreateSkills |-> r \in {"manager", "specialist"},
         canModifyOthers |-> r = "manager"]]

\* the AgentPerformance a new agent, or a first completion, starts from
ZeroPerf ==
    [tasksCompleted |-> 0, tasksSuccessful |-> 0, avgExecutionTime |-> FZero,
     learnings |-> 0]

\* an identity the registry does not know
NoAgent ==
    [known |-> FALSE, role |-> "", version |-> 0, hasPerf |-> FALSE,
     performance |-> ZeroPerf]

\* this.redis = null: no external store (REDIS_URL is not set)
NoRedis == [connected |-> FALSE, agents |-> [a \in Agents |-> NoAgent]]

NoEval == [called |-> FALSE]

\* the registry after construction, with no agent file loaded
RegIdle ==
    /\ memRules = DEFAULT_RULES
    /\ memAgents = [a \in Agents |-> NoAgent]
    /\ memSkills = <<>>
    /\ patterns = <<>>
    /\ redis = NoRedis
    /\ regRuns = <<>>
    /\ evals = NoEval
    /\ regLog = <<>>


ProcIds == 1..Len(procs)
SubIds == 1..Len(subs)

\* --------------------------------------------------------- pool (Map) ops
\* Map.set: an existing key keeps its position, a new key goes last
PoolSet(pl, id, p) ==
    IF \E i \in 1..Len(pl) : pl[i].id = id
    THEN [i \in 1..Len(pl) |->
             IF pl[i].id = id THEN [id |-> id, inst |-> p] ELSE pl[i]]
    ELSE Append(pl, [id |-> id, inst |-> p])

\* mutant: the entry of an exited child is left in the map
PoolDelete_Keep(pl, id) == pl

\* Map.delete
PoolDelete(pl, id) == SelectSeq(pl, LAMBDA e : e.id # id)

\* mutant: the busy flag is not consulted
FindAvailable_IgnoreBusy(pl, pr) ==
    IF pl = <<>> THEN 0 ELSE pl[1].inst

\* Array.from(this.pool.values()).find(p => !p.busy); 0 stands for undefined
FindAvailable(pl, pr) ==
    IF \E i \in 1..Len(pl) : ~pr[pl[i].inst].busy
    THEN pl[CHOOSE i \in 1..Len(pl) :
                /\ ~pr[pl[i].inst].busy
                /\ \A j \in 1..(i - 1) : pr[pl[j].inst].busy].inst
    ELSE 0

\* ------------------------------------------------------------ spawnInstance
\* the state right after spawn(): listeners installed, 30 s timer armed
\* child.kill() changes nothing here: the signal ends in the 'exit' event,
\* which ProcExit delivers to any living child at any later time. A child's
\* stdout is taken to be drained when its 'exit' event is handled: no 'data'
\* event of a child follows its 'exit' event.
NewProc(id) ==
    [id          |-> id,
     alive       |-> TRUE,
     initialized |-> FALSE,
     initTimer   |-> TRUE,
     busy        |-> FALSE,
     prompts     |-> <<>>]

\* await Promise.all(promises) in initialize(): the first reject() of one of
\* the poolSize spawn promises rejects it, the resolve() of all of them
\* resolves it. A spawn promise is resolved exactly when its child is
\* initialized and it was not rejected before.
PromiseAllResolve(ist, pr) ==
    IF ist = "pending" /\ \A p \in 1..PoolSize : pr[p].initialized
    THEN "resolved" ELSE ist

PromiseAllReject(ist, p) ==
    IF ist = "pending" /\ p <= PoolSize THEN "rejected" ELSE ist

\* A 30 s timer is dropped from the state once its callback can change
\* nothing: the child is dead (kill is a no-op) and the reject() would not
\* be seen (the spawn is a respawn, or initialize() has already settled).
TimerMatters(pr, ist, p) ==
    /\ pr[p].initTimer /\ ~pr[p].initialized
    /\ pr[p].alive \/ (p <= PoolSize /\ ist = "pending")

DropDeadTimers(pr, ist) ==
    [p \in 1..Len(pr) |->
        [pr[p] EXCEPT !.initTimer = TimerMatters(pr, ist, p)]]

\* --------------------------------------------------------------- executeTask
\* mutant: the busy flag is not set on dispatch
ExecProcs_NoBusy(pr, p, s) ==
    [pr EXCEPT ![p].prompts = IF pr[p].alive THEN Append(@, s) ELSE @]

\* instance.busy = true and stdin.write(prompt)
ExecProcs(pr, p, s) ==
    [pr EXCEPT ![p].busy = TRUE,
               ![p].prompts = IF pr[p].alive THEN Append(@, s) ELSE @]

\* the closure of executeTask: output = '', completed = false, timer armed
ExecSubs(sb, p, s) ==
    [sb EXCEPT ![s].st = "running", ![s].inst = p]

\* mutant: the queue is drained from its end (pop instead of shift)
QueueTake_Lifo(q) == [task |-> q[Len(q)], rest |-> SubSeq(q, 1, Len(q) - 1)]

\* this.taskQueue.shift()
QueueTake(q) == [task |-> Head(q), rest |-> Tail(q)]

ProcessQueue(pr, sb, q, pl) ==
    IF q = <<>> THEN [procs |-> pr, subs |-> sb, taskQueue |-> q]
    ELSE LET available == FindAvailable(pl, pr) IN
         IF available = 0 THEN [procs |-> pr, subs |-> sb, taskQueue |-> q]
         ELSE LET t == QueueTake(q) IN
              [procs     |-> ExecProcs(pr, available, t.task),
               subs      |-> ExecSubs(sb, available, t.task),
               taskQueue |-> t.rest]

\* completed = true; resolve(result)
Resolve(sb, s, res) == [sb EXCEPT ![s].st = "done", ![s].result = res]

\* mutant: the session stays marked busy when its submission resolves
Release_StayBusy(pr, p) == pr

\* instance.busy = false
Release(pr, p) == [pr EXCEPT ![p].busy = FALSE]

\* ---------------------------------------------------------------- actions
Init ==
    /\ procs = <<>>
    /\ pool = <<>>
    /\ taskQueue = <<>>
    /\ isShuttingDown = FALSE
    /\ respawnTimers = 0
    /\ now = 0
    /\ subs = <<>>
    /\ initState = "idle"
    /\ OrchIdle
    /\ RegIdle

\* initialize(): spawn poolSize instances pool-0 .. pool-(poolSize-1)
Initialize ==
    /\ initState = "idle"
    /\ procs = <<>>
    /\ procs' = [i \in 1..PoolSize |-> NewProc(i - 1)]
    /\ initState' = "pending"
    /\ UNCHANGED <<pool, taskQueue, isShuttingDown, respawnTimers, now, subs>>
    /\ UNCHANGED <<orchVars, regVars>>

\* child.stdout.once('data'): the first output chunk of a child
SpawnReady(p) ==
    /\ procs[p].alive /\ ~procs[p].initialized
    /\ LET pr == [procs EXCEPT ![p].initialized = TRUE] IN
       /\ initState' = PromiseAllResolve(initState, pr)
       /\ procs' = DropDeadTimers(pr, initState')
    /\ pool' = PoolSet(pool, procs[p].id, p)
    /\ UNCHANGED <<taskQueue, isShuttingDown, respawnTimers, now, subs>>
    /\ UNCHANGED <<orchVars, regVars>>

\* the 30 s timer of spawnInstance, firing on a child without output
InitTimeout(p) ==
    /\ procs[p].initTimer /\ ~procs[p].initialized
    /\ initState' = PromiseAllReject(initState, p)
    /\ procs' = DropDeadTimers([procs EXCEPT ![p].initTimer = FALSE],
                               initState')
    /\ UNCHANGED <<pool, taskQueue, isShuttingDown, respawnTimers, now, subs>>
    /\ UNCHANGED <<orchVars, regVars>>

\* child.on('error'): the spawn itself failed
ProcError(p) ==
    /\ procs[p].alive /\ ~procs[p].initialized
    /\ initState' = PromiseAllReject(initState, p)
    /\ procs' = DropDeadTimers([procs EXCEPT ![p].alive = FALSE],
                               initState')
    /\ pool' = PoolDelete(pool, procs[p].id)
    /\ UNCHANGED <<taskQueue, isShuttingDown, respawnTimers, now, subs>>
    /\ UNCHANGED <<orchVars, regVars>>

\* child.on('exit')
ProcExit(p) ==
    /\ procs[p].alive
    /\ procs' = DropDeadTimers(
                    [procs EXCEPT ![p].alive = FALSE, ![p].prompts = <<>>],
                    initState)
    /\ pool' = PoolDelete(pool, procs[p].id)
    /\ respawnTimers' =
          IF ~isShuttingDown /\ Len(pool') < PoolSize
          THEN respawnTimers + 1 ELSE respawnTimers
    /\ UNCHANGED <<taskQueue, isShuttingDown, now, subs, initState>>
    /\ UNCHANGED <<orchVars, regVars>>

\* mutant: the backoff timer stays armed after it has fired (setInterval)
Respawn_Interval(maxProcs) ==
    /\ respawnTimers > 0
    /\ Len(procs) < maxProcs
    /\ \E t \in {now, now + 1} :
          /\ t >= 1
          /\ now' = t
          /\ procs' = Append(procs, NewProc(ClockBase + t))
    /\ UNCHANGED <<pool, taskQueue, isShuttingDown, subs, initState,
                   respawnTimers>>
    /\ UNCHANGED <<orchVars, regVars>>

\* the 1 s backoff timer: this.spawnInstance(`pool-${Date.now()}`), for at
\* most maxProcs children in all.
\* Two timers that fire within the same millisecond read the same clock.
Respawn(maxProcs) ==
    /\ respawnTimers > 0
    /\ Len(procs) < maxProcs
    /\ \E t \in {now, now + 1} :
          /\ t >= 1
          /\ now' = t
          /\ procs' = Append(procs, NewProc(ClockBase + t))
    /\ respawnTimers' = respawnTimers - 1
    /\ UNCHANGED <<pool, taskQueue, isShuttingDown, subs, initState>>
    /\ UNCHANGED <<orchVars, regVars>>

RespawnFire == Respawn(MaxProcs)

NewSub ==
    [st |-> "new", inst |-> 0, result |-> "none", output |-> {},
     viaQueue |-> FALSE]

\* runTask(prompt, timeout)
Submit ==
    /\ Len(subs) < MaxSubs
    /\ LET s == Len(subs) + 1
           sb == Append(subs, NewSub)
           available == FindAvailable(pool, procs) IN
       IF available = 0
       THEN /\ taskQueue' = Append(taskQueue, s)
            /\ subs' = [sb EXCEPT ![s].st = "queued", ![s].viaQueue = TRUE]
            /\ procs' = procs
       ELSE /\ procs' = ExecProcs(procs, available, s)
            /\ subs' = ExecSubs(sb, available, s)
            /\ taskQueue' = taskQueue
    /\ UNCHANGED <<pool, isShuttingDown, respawnTimers, now, initState>>
    /\ UNCHANGED <<orchVars, regVars>>

\* the onData listeners that executeTask installed on the child's stdout;
\* they are never removed, so every closure ever bound to the child is
\* called for every chunk, and the completed ones ignore it
Listeners(p) == {s \in SubIds : subs[s].inst = p}

\* mutant: the listener does not test `completed`
OnData_Unguarded(st, p, s, src) ==
    ProcessQueue(Release(st.procs, p),
                 Resolve([st.subs EXCEPT ![s].output = @ \cup {src}],
                         s, "success"),
                 st.taskQueue, pool)

\* mutant: completion does not drain the queue
OnData_NoDrain(st, p, s, src) ==
    IF st.subs[s].st # "running" THEN st
    ELSE [procs     |-> Release(st.procs, p),
          subs      |-> Resolve([st.subs EXCEPT ![s].output = @ \cup {src}],
                                s, "success"),
          taskQueue |-> st.taskQueue]

\* one onData call whose accumulated output now contains the marker
OnData(st, p, s, src) ==
    IF st.subs[s].st # "running" THEN st
    ELSE ProcessQueue(Release(st.procs, p),
                      Resolve([st.subs EXCEPT ![s].output = @ \cup {src}],
                              s, "success"),
                      st.taskQueue, pool)

\* emit('data') calls the listeners registered before the event, in turn
RECURSIVE EmitData(_, _, _, _)
EmitData(st, p, ls, src) ==
    IF ls = {} THEN st
    ELSE LET s == CHOOSE x \in ls : \A y \in ls : x <= y IN
         EmitData(OnData(st, p, s, src), p, ls \ {s}, src)

\* stdout 'data' of an initialized child: the chunk that ends its answer to
\* the oldest prompt it has not answered yet, so that the output accumulated
\* since a listener was installed contains the prompt-return marker. Chunks
\* before it only lengthen `output` and are not separate steps.
Data(p) ==
    /\ procs[p].alive /\ procs[p].initialized
    /\ procs[p].prompts # <<>>
    /\ LET src == Head(procs[p].prompts)
           r == EmitData([procs     |-> [procs EXCEPT ![p].prompts = Tail(@)],
                          subs      |-> subs,
                          taskQueue |-> taskQueue],
                         p, Listeners(p), src) IN
       /\ procs' = r.procs
       /\ subs' = r.subs
       /\ taskQueue' = r.taskQueue
    /\ UNCHANGED <<pool, isShuttingDown, respawnTimers, now, initState>>
    /\ UNCHANGED <<orchVars, regVars>>

\* the timer of executeTask firing before completion
Timeout(s) ==
    /\ subs[s].st = "running"
    /\ LET r == ProcessQueue(Release(procs, subs[s].inst),
                             Resolve(subs, s, "timeout"),
                             taskQueue, pool) IN
       /\ procs' = r.procs
       /\ subs' = r.subs
       /\ taskQueue' = r.taskQueue
    /\ UNCHANGED <<pool, isShuttingDown, respawnTimers, now, initState>>
    /\ UNCHANGED <<orchVars, regVars>>

\* mutant: shutdown() leaves the queue as it is
Shutdown_KeepQueue ==
    /\ isShuttingDown' = TRUE
    /\ pool' = <<>>
    /\ UNCHANGED <<procs, taskQueue, subs, respawnTimers, now, initState>>
    /\ UNCHANGED <<orchVars, regVars>>

\* shutdown()
Shutdown ==
    /\ isShuttingDown' = TRUE
    /\ procs' = procs
    /\ pool' = <<>>
    /\ taskQueue' = <<>>
    /\ subs' = [s \in SubIds |->
                   IF subs[s].st = "queued"
                   THEN [subs[s] EXCEPT !.st = "dropped"] ELSE subs[s]]
    /\ UNCHANGED <<respawnTimers, now, initState>>
    /\ UNCHANGED <<orchVars, regVars>>

Next ==
    \/ Initialize
    \/ \E p \in ProcIds : SpawnReady(p)
    \/ \E p \in ProcIds : InitTimeout(p)
    \/ \E p \in ProcIds : ProcError(p)
    \/ \E p \in ProcIds : ProcExit(p)
    \/ RespawnFire
    \/ Submit
    \/ \E p \in ProcIds : Data(p)
    \/ \E s \in SubIds : Timeout(s)
    \/ Shutdown

Spec == Init /\ [][Next]_vars

\* ======================================================================
\* Properties
\* ======================================================================
InFlight == {s \in SubIds : subs[s].st = "running"}
InFlightOn(p) == {s \in InFlight : subs[s].inst = p}
PoolInsts == {pool[i].inst : i \in 1..Len(pool)}

\* s is dispatched in this step (by runTask directly or by processQueue)
Dispatched(s) ==
    /\ s \in 1..Len(subs')
    /\ subs'[s].st = "running"
    /\ (s \in SubIds => subs[s].st # "running")

\* s resolves in this step with result res
Resolved(s, res) ==
    /\ s \in SubIds
    /\ subs[s].st = "running"
    /\ subs'[s].st = "done" /\ subs'[s].result = res

\* ---------------------------------------------------------------- C1
AtMostOneInFlight ==
    \A p \in ProcIds :
        /\ Cardinality(InFlightOn(p)) <= 1
        /\ (InFlightOn(p) # {} => procs[p].busy)

DispatchOnlyToFree ==
    \A s \in 1..Len(subs') :
        Dispatched(s) =>
            LET p == subs'[s].inst IN
            /\ p \in ProcIds
            /\ procs'[p].busy
            /\ \/ ~procs[p].busy
               \/ \E t \in InFlightOn(p) : subs'[t].st = "done"

\* C1: pool exclusivity. After every step each session carries at most one
\* dispatched and unresolved submission and its busy flag is set while it
\* does; every dispatch (by runTask or by the queue drain) goes to a session
\* whose busy flag is false when it is chosen (false before the step, or
\* cleared in this very step by the submission that just resolved on it) and
\* leaves the flag true at the end of the same step.
C1_PoolExclusivity == [][AtMostOneInFlight' /\ DispatchOnlyToFree]_vars

\* a session that served one submission to its end and now carries exactly
\* one other, while a further submission waits in the queue
C1_Witness ==
    \E p \in ProcIds :
        /\ procs[p].busy
        /\ Cardinality(InFlightOn(p)) = 1
        /\ \E t \in SubIds : subs[t].st = "done" /\ subs[t].inst = p
        /\ taskQueue # <<>>

\* ---------------------------------------------------------------- C2
NoneResolved == \A s \in SubIds : subs[s].st \in {"queued", "running"}
FullPool == Len(pool) = PoolSize
NoExit == \A p \in ProcIds : procs[p].alive
IsPrefix(q, r) == Len(q) <= Len(r) /\ SubSeq(r, 1, Len(q)) = q
Submitted == Len(subs') = Len(subs) + 1

\* C2 as claimed: whenever the pool holds N ready sessions and no submission
\* has completed or timed out, at most N submissions are in flight.
C2_AtMostNInFlight ==
    (FullPool /\ NoneResolved) => Cardinality(InFlight) <= PoolSize

\* C2 as amended (no session exits): while the pool holds its N ready
\* sessions, none of them has exited and no submission has resolved, at most
\* N submissions are in flight, nothing leaves the queue, and a submission
\* arriving while N are in flight is appended to the queue and not dispatched.
C2_Step ==
    (FullPool /\ NoExit /\ NoneResolved /\ FullPool' /\ NoExit' /\ NoneResolved')
    => /\ Cardinality(InFlight') <= PoolSize
       /\ IsPrefix(taskQueue, taskQueue')
       /\ (Submitted /\ Cardinality(InFlight) = PoolSize)
             => /\ taskQueue' = Append(taskQueue, Len(subs'))
                /\ subs'[Len(subs')].st = "queued"
                /\ InFlight' = InFlight

C2_QueuedBeyondN == [][C2_Step]_vars

\* N in flight on the N original sessions and a further submission queued
C2_Witness ==
    /\ FullPool /\ NoExit /\ NoneResolved
    /\ Cardinality(InFlight) = PoolSize
    /\ Len(subs) = PoolSize + 1
    /\ taskQueue = <<PoolSize + 1>>

\* ---------------------------------------------------------------- C3
\* the first idle pool entry once session p has been released
FirstIdleAfterRelease(p) ==
    LET idle(i) == pool[i].inst = p \/ ~procs[pool[i].inst].busy IN
    IF \E i \in 1..Len(pool) : idle(i)
    THEN pool[CHOOSE i \in 1..Len(pool) :
                  idle(i) /\ \A j \in 1..(i - 1) : ~idle(j)].inst
    ELSE 0

HeadGoesTo(p) ==
    /\ taskQueue' = Tail(taskQueue)
    /\ subs'[Head(taskQueue)].st = "running"
    /\ subs'[Head(taskQueue)].inst = p

\* C3 as claimed: when a session completes a submission while the queue is
\* non-empty, the head of the queue is dispatched in that step to the session
\* that just became free.
C3_HeadToFreedSession ==
    [][\A s \in SubIds :
          (Resolved(s, "success") /\ taskQueue # <<>>)
              => HeadGoesTo(subs[s].inst)]_vars

\* C3 as amended: when a session completes a submission while the queue is
\* non-empty, the head of the queue is dispatched in that step to the first
\* idle session in pool order, and stays queued if the pool holds no idle
\* session; the target is the session that just became free whenever that
\* session is still in the pool and every other pooled session is busy, as in
\* the scenario of two sessions and three submissions.
C3_HeadToFirstIdle ==
    [][\A s \in SubIds :
          (Resolved(s, "success") /\ taskQueue # <<>>)
              => LET p == subs[s].inst
                     f == FirstIdleAfterRelease(p) IN
                 /\ IF f = 0
                    THEN taskQueue' = taskQueue
                    ELSE HeadGoesTo(f)
                 /\ (/\ p \in PoolInsts
                     /\ \A q \in PoolInsts \ {p} : procs[q].busy)
                       => HeadGoesTo(p)]_vars

\* the scenario: two sessions, three submissions, the first one completed and
\* the queued third one now runs on the session of the first
C3_Witness ==
    /\ Len(pool) = 2 /\ Len(subs) = 3
    /\ subs[1].st = "done" /\ subs[1].result = "success"
    /\ subs[2].st = "running"
    /\ subs[3].st = "running" /\ subs[3].viaQueue
    /\ subs[3].inst = subs[1].inst
    /\ subs[2].inst # subs[1].inst
    /\ taskQueue = <<>>

\* ---------------------------------------------------------------- C4
\* C4: queued submissions are dispatched in FIFO order. Submissions are
\* numbered in arrival order, so of two queued ones the smaller was queued
\* first: the queue always lists its submissions in arrival order, and
\* whenever a queued submission is dispatched no submission queued before it
\* is still waiting.
C4_Step ==
    /\ \A i, j \in 1..Len(taskQueue') : i < j => taskQueue'[i] < taskQueue'[j]
    /\ \A t \in SubIds :
          (subs[t].st = "queued" /\ subs'[t].st = "running")
              => \A s \in SubIds : s < t => subs'[s].st # "queued"

C4_QueueFifo == [][C4_Step]_vars

\* two submissions that both waited in the queue and were both dispatched
C4_Witness ==
    \E a, b \in SubIds :
        /\ a < b
        /\ subs[a].viaQueue /\ subs[b].viaQueue
        /\ subs[a].st = "done" /\ subs[b].st = "running"

\* ---------------------------------------------------------------- C5
\* C5: when the timer of a dispatched submission fires before completion,
\* that submission resolves with the failure 'Timeout exceeded' and no other
\* submission resolves or changes; no child is terminated and the pool map is
\* unchanged; the session is marked free; the head of the queue, if any, is
\* dispatched in the same step to the first idle pooled session (the freed
\* session itself when it is still pooled and the others are busy), so the
\* freed session is idle or serving the next queued submission afterwards.
C5_Post(s) ==
    LET p == subs[s].inst
        f == FirstIdleAfterRelease(p) IN
    /\ subs'[s].st = "done" /\ subs'[s].result = "timeout"
    /\ \A t \in SubIds \ {s} :
          (subs'[t] # subs[t]) => (taskQueue # <<>> /\ t = Head(taskQueue))
    /\ pool' = pool
    /\ \A q \in ProcIds : procs'[q].alive = procs[q].alive
    /\ IF taskQueue = <<>> \/ f = 0
       THEN taskQueue' = taskQueue /\ ~procs'[p].busy
       ELSE /\ HeadGoesTo(f)
            /\ procs'[f].busy
            /\ (f # p => ~procs'[p].busy)
    /\ (taskQueue # <<>> /\ p \in PoolInsts) => taskQueue' = Tail(taskQueue)
    /\ (/\ taskQueue # <<>> /\ p \in PoolInsts
        /\ \A q \in PoolInsts \ {p} : procs[q].busy) => HeadGoesTo(p)

C5_TimeoutFailsOnlyItself == [][\A s \in SubIds : Timeout(s) => C5_Post(s)]_vars

\* a submission timed out, the queued one took over its session, and the
\* submission in flight on the other session is still in flight
C5_Witness ==
    \E s, t, u \in SubIds :
        /\ subs[s].st = "done" /\ subs[s].result = "timeout"
        /\ subs[t].viaQueue /\ subs[t].inst = subs[s].inst
        /\ subs[t].st = "done" /\ subs[t].result = "success"
        /\ subs[u].st = "running" /\ subs[u].inst # subs[s].inst
        /\ u < t

\* ---------------------------------------------------------------- C6
\* a pooled session exits while shutdown has not been requested: its entry
\* leaves the pool, one backoff timer is armed, and the submission in flight
\* on it is neither re-queued nor re-dispatched
C6_ExitStep ==
    \A p \in ProcIds :
        (procs[p].alive /\ ~procs'[p].alive /\ p \in PoolInsts
         /\ ~isShuttingDown)
        => /\ p \notin PoolInsts'
           /\ \A i \in 1..Len(pool') : pool'[i].id # procs[p].id
           /\ respawnTimers' = respawnTimers + 1
           /\ subs' = subs /\ taskQueue' = taskQueue

Orphans == {s \in InFlight : ~procs[subs[s].inst].alive}

C7_ShutdownSuppressesRespawn ==
    [][(isShuttingDown /\ initState # "idle")
          => Len(procs') = Len(procs)]_vars

\* ---------------------------------------------------------------- C8
Dropped == {s \in SubIds : subs[s].st = "dropped"}
InQueue(q) == {q[i] : i \in 1..Len(q)}

\* C8: shutdown() empties the queue without resolving: every submission
\* that is queued when shutdown() is called leaves the queue in that step,
\* and from then on it is never dispatched, never resolved and never put
\* back into the queue.
C8_Step ==
    /\ Shutdown
          => /\ taskQueue' = <<>>
             /\ \A s \in InQueue(taskQueue) :
                   /\ subs'[s].st = "dropped"
                   /\ subs'[s].inst = 0 /\ subs'[s].result = "none"
    /\ \A s \in Dropped :
          /\ subs'[s] = subs[s]
          /\ s \notin InQueue(taskQueue')
          /\ \A p \in 1..Len(procs') :
                \A i \in 1..Len(procs'[p].prompts) :
                    procs'[p].prompts[i] # s

C8_ShutdownDropsQueue == [][C8_Step]_vars

\* a submission dropped by shutdown() is still unresolved after a later
\* submission has been dispatched and resolved
C8_Witness ==
    \E s, t \in SubIds :
        /\ s < t
        /\ subs[s].st = "dropped"
        /\ subs[t].st = "done"
        /\ isShuttingDown

\* ---------------------------------------------------------------- C9
\* nothing is pending inside the pool: no timer is armed, no child is still
\* starting and no submission is in flight, so only a new runTask call, a
\* crash or shutdown() can change the state
Quiescent ==
    /\ initState \in {"resolved", "rejected"}
    /\ respawnTimers = 0
    /\ InFlight = {}
    /\ \A p \in ProcIds :
          /\ ~procs[p].initTimer
          /\ procs[p].alive => procs[p].initialized

\* C9: bounded wait (no shutdown): every accepted submission delivers a
\* result, so once nothing is pending inside a pool that holds its N ready
\* sessions, every submission accepted so far has been resolved.
C9_BoundedWait ==
    (Quiescent /\ FullPool /\ ~isShuttingDown)
        => \A s \in SubIds : subs[s].st = "done"

\* ---------------------------------------------------------------- C10
\* C10: initialize() tolerates a spawn that emits no output within the fixed
\* timeout: the 30 s timer of one child never makes initialize() fail.
C10_InitToleratesTimeout ==
    [][\A p \in ProcIds : InitTimeout(p) => initState' # "rejected"]_vars

\* ======================================================================
\* Task orchestration flow: AgentOrchestrator (src/unnamed/part_001),
\* TasksController.updateTask, TaskDatabase, the GitHub webhook and the
\* Claude Code runner.  Every await on the execution backend or on the
\* notification sink is a point where other handlers run; the awaits on
\* the task store and on the registry are folded into the step they
\* belong to.
\* ======================================================================

\* number of tasks ever created
MaxTasks == 1
\* number of runAgent calls explored
MaxRuns == 2

TaskIds == 1..Len(tasks)
RunIds == 1..Len(runs)

Statuses == {"backlog", "ready", "in_progress", "pr_created", "done"}
\* "none" stands for an absent priority
Priorities == {"P0", "P1", "P2", "none"}
\* an absent or empty owner: both are falsy in `if (task.owner)`
NoOwner == ""
\* the owners of the tasks explored
Owners == {NoOwner, "dev"}
Projects == {"default", "other"}
\* ['pm', 'eng-lead'].includes(agentName)
TerminalAgents == {"pm", "eng-lead"}

\* ------------------------------------------------------------- task store
\* createTask: status 'backlog'; createdAt is the position in `tasks`
NewTask(project, owner, priority) ==
    [project |-> project, status |-> "backlog", owner |-> owner,
     priority |-> priority, output |-> <<>>]

\* updateTask: { ...task, ...updates }; an unknown id changes nothing
UpdateTask(tk, id, updates) ==
    IF id \notin 1..Len(tk) THEN tk
    ELSE [tk EXCEPT ![id] =
             [f \in DOMAIN tk[id] |->
                 IF f \in DOMAIN updates THEN updates[f] ELSE tk[id][f]]]

\* mutant: an absent priority sorts first
PriorityOrder_AbsentFirst(p) ==
    CASE p = "P0" -> 0 [] p = "P1" -> 1 [] p = "P2" -> 2 [] OTHER -> 0

\* priorityOrder = { P0: 0, P1: 1, P2: 2 }, absent is 3
PriorityOrder(p) ==
    CASE p = "P0" -> 0 [] p = "P1" -> 1 [] p = "P2" -> 2 [] OTHER -> 3

\* the comparator of listTasks; createdAt grows with the task id
Compare(tk, a, b) ==
    IF PriorityOrder(tk[a].priority) # PriorityOrder(tk[b].priority)
    THEN PriorityOrder(tk[a].priority) - PriorityOrder(tk[b].priority)
    ELSE a - b

\* Array.prototype.sort (stable): x goes behind every element not after it
RECURSIVE SortInsert(_, _, _)
SortInsert(tk, sorted, x) ==
    IF sorted = <<>> THEN <<x>>
    ELSE IF Compare(tk, Head(sorted), x) <= 0
         THEN <<Head(sorted)>> \o SortInsert(tk, Tail(sorted), x)
         ELSE <<x>> \o sorted

RECURSIVE SortTasks(_, _)
SortTasks(tk, ids) ==
    IF ids = <<>> THEN <<>>
    ELSE SortInsert(tk, SortTasks(tk, SubSeq(ids, 1, Len(ids) - 1)),
                    ids[Len(ids)])

\* listTasks(projectId, status): the ids of the matching tasks, sorted
ListTasks(tk, project, status) ==
    SortTasks(tk, SelectSeq([i \in 1..Len(tk) |-> i],
                  LAMBDA i : tk[i].project = project /\ tk[i].status = status))

\* ------------------------------------------------ execution backend adapter
\* what the child process of runClaudeCode does: the callbacks that fire, in
\* order ('close' with code 0 or not, 'error', the timeout timer)
BackendEvents ==
    {<<"close0">>, <<"closeN">>, <<"error">>, <<"timeout">>,
     <<"error", "closeN">>, <<"timeout", "closeN">>, <<"timeout", "close0">>}

\* runClaudeCode: the promise is resolved by the first callback that fires;
\* a later resolve() has no effect
RunClaudeCode(evs) ==
    CASE evs[1] = "close0" ->
           [success |-> TRUE, output |-> "result", error |-> ""]
      [] evs[1] = "closeN" ->
           [success |-> FALSE, output |-> "result", error |-> "stderr"]
      [] evs[1] = "error" ->
           [success |-> FALSE, output |-> "", error |-> "spawn"]
      [] OTHER ->
           [success |-> FALSE, output |-> "result", error |-> "Timeout exceeded"]

\* mutant: a failed result is returned as if it were the outcome text
RunAgentTask_ReturnOutput(res) ==
    [thrown |-> FALSE, value |-> res.output]

\* runAgentTask: the output of a successful result, an Error otherwise
RunAgentTask(res) ==
    IF res.success
    THEN [thrown |-> FALSE, value |-> res.output]
    ELSE [thrown |-> TRUE,
          value |-> IF res.error # "" THEN res.error
                    ELSE "Claude Code execution failed"]

\* --------------------------------------------------------------- runAgent
\* mutant: the pattern is tracked before the rules are evaluated
RunAgentBefore_PatternFirst(pat) ==
    (IF pat THEN <<"pattern">> ELSE <<>>) \o <<"rules">>

\* lines 93-106: evaluateRules, then trackPattern if the task text has a
\* pattern; what the call does to the registry, in order
RunAgentBefore(pat) ==
    <<"rules">> \o (IF pat THEN <<"pattern">> ELSE <<>>)

\* lines 75-150: the call up to its await on the backend
StartRun(agent, origin, task, branch, pat) ==
    [agent |-> agent, origin |-> origin, task |-> task, branch |-> branch,
     pc |-> "backend", exec |-> "pending", result |-> "", plan |-> "none",
     log |-> RunAgentBefore(pat), metrics |-> perf[agent]]

\* if (!['pm', 'eng-lead'].includes(agentName))
Schedules(agent) == agent \notin TerminalAgents

\* lines 183-189: planNextTasks is started and not awaited, the outcome text
\* is returned
ReturnRun(run) ==
    [run EXCEPT !.pc = "returned",
                !.plan = IF Schedules(run.agent) THEN "scheduled" ELSE "none",
                !.log = IF Schedules(run.agent) THEN Append(@, "plan") ELSE @]

\* the promise of runAgent is rejected with the error of the failed await
ThrowRun(run, msg) == [run EXCEPT !.pc = "thrown", !.result = msg]

\* what the caller of runAgent does when the call settles: runSprintCheck
\* (lines 447-449), the then and catch callbacks of TasksController
\* .updateTask (lines 125-169); pr tells whether createPR succeeded
Settle(tk, run, pr) ==
    CASE run.origin = "sprint" /\ run.pc = "returned" ->
           UpdateTask(tk, run.task, [status |-> "done"])
      [] run.origin = "web" /\ run.pc = "returned" ->
           IF run.branch /\ pr
           THEN UpdateTask(tk, run.task,
                    [status |-> "pr_created", output |-> <<run.result>>])
           ELSE UpdateTask(tk, run.task,
                    [status |-> "done", output |-> <<run.result>>])
      [] run.origin = "web" /\ run.pc = "thrown" ->
           UpdateTask(tk, run.task,
               [status |-> "backlog", output |-> <<"Error: ", run.result>>])
      [] OTHER -> tk


\* ------------------------------------------------------- planNextTasks
\* the answer of the backend to the planning prompt: a text that is JSON
\* of some value, or a text that is not JSON; with n tasks and m runAgent
\* calls so far, the plans explored create a task or name a follow-up
\* only while that stays within MaxTasks and MaxRuns
NullValue == [isNull |-> TRUE]
PlanValues(n, m) ==
    {NullValue} \cup
    [isNull : {FALSE},
     readyTasks : {<<>>} \cup {<<t>> : t \in 1..MaxTasks},
     newTasks : {<<>>} \cup
                (IF n < MaxTasks
                 THEN {<<[owner |-> o, priority |-> pri]>> :
                          o \in Owners, pri \in {"P0", "none"}}
                 ELSE {}),
     nextAgent : {""} \cup (IF m < MaxRuns THEN Agents ELSE {})]
PlanTexts(n, m) ==
    {[json |-> FALSE]} \cup
    {[json |-> TRUE, value |-> v] : v \in PlanValues(n, m)}
\* what the await on the backend gives planNextTasks: a failure, or a text
PlanAnswers(n, m) ==
    {[ok |-> FALSE]} \cup {[ok |-> TRUE, text |-> x] : x \in PlanTexts(n, m)}

\* mutant: a text that is not JSON is read as a plan that readies task 1
JSONParse_Lenient(text) ==
    IF text.json THEN [ok |-> TRUE, value |-> text.value]
    ELSE [ok |-> TRUE,
          value |-> [isNull |-> FALSE, readyTasks |-> <<1>>,
                     newTasks |-> <<>>, nextAgent |-> ""]]

\* JSON.parse: the value, or a SyntaxError
JSONParse(text) ==
    IF text.json THEN [ok |-> TRUE, value |-> text.value] ELSE [ok |-> FALSE]

\* lines 394-397: updateTask(taskId, { status: 'ready' }) for each listed id
RECURSIVE MarkReady(_, _)
MarkReady(tk, ids) ==
    IF ids = <<>> THEN tk
    ELSE MarkReady(UpdateTask(tk, Head(ids), [status |-> "ready"]), Tail(ids))

\* lines 399-410: createTask('default', ...) for each new task
RECURSIVE CreateAll(_, _)
CreateAll(tk, news) ==
    IF news = <<>> THEN tk
    ELSE CreateAll(Append(tk, NewTask("default", Head(news).owner,
                                      Head(news).priority)), Tail(news))

\* mutant: a rejected planning continuation rejects the runAgent call too
PlanCatch_Rethrow(run) == [run EXCEPT !.plan = "rejected", !.pc = "thrown"]

\* .catch(err => console.error('[Orchestrator] Planning failed:', err))
PlanCatch(run) == [run EXCEPT !.plan = "rejected"]

\* ---------------------------------------------------------------- actions
\* the orchestrator is constructed with or without a notification sink
OrchInit ==
    /\ procs = <<>>
    /\ pool = <<>>
    /\ taskQueue = <<>>
    /\ isShuttingDown = FALSE
    /\ respawnTimers = 0
    /\ now = 0
    /\ subs = <<>>
    /\ initState = "idle"
    /\ tasks = <<>>
    /\ runs = <<>>
    /\ followUps = <<>>
    /\ perf = [a \in Agents |-> 0]
    /\ patternTracker = 0
    /\ onNotification \in BOOLEAN
    /\ RegIdle

Tracked(pat) == patternTracker + (IF pat THEN 1 ELSE 0)

\* POST projects/{projectId}/tasks, for the default project and a body
\* without priority
CreateTask ==
    /\ Len(tasks) < MaxTasks
    /\ \E owner \in Owners :
          tasks' = Append(tasks, NewTask("default", owner, "none"))
    /\ UNCHANGED <<runs, followUps, perf, patternTracker, onNotification>>
    /\ UNCHANGED <<poolVars, regVars>>

\* the request bodies of PATCH tasks/{taskId} explored
UpdateBodies ==
    {[status |-> st] : st \in Statuses} \cup
    {[owner |-> o] : o \in Owners}

\* mutant: a task that already has an output is not executed again
ReadyTrigger_OnlyFirst(body, current, task) ==
    /\ "status" \in DOMAIN body
    /\ body.status = "ready"
    /\ current.status # "ready"
    /\ task.owner # NoOwner
    /\ current.output = <<>>

\* body.status === 'ready' && currentTask?.status !== 'ready' && task.owner
ReadyTrigger(body, current, task) ==
    /\ "status" \in DOMAIN body
    /\ body.status = "ready"
    /\ current.status # "ready"
    /\ task.owner # NoOwner

\* PATCH tasks/{taskId}: the update, and for a task moved to ready that has
\* an owner the switch to in_progress and the start of runAgent; branch
\* tells whether git is configured and the branch was created
WebUpdate(t, body) ==
    LET updated == UpdateTask(tasks, t, body) IN
    /\ IF ReadyTrigger(body, tasks[t], updated[t])
       THEN /\ Len(runs) < MaxRuns
            /\ tasks' = UpdateTask(updated, t, [status |-> "in_progress"])
            /\ \E branch \in BOOLEAN :
                  runs' = Append(runs, StartRun(updated[t].owner, "web", t,
                                                branch, TRUE))
            /\ patternTracker' = Tracked(TRUE)
       ELSE /\ tasks' = updated
            /\ UNCHANGED <<runs, patternTracker>>
    /\ UNCHANGED <<followUps, perf, onNotification>>
    /\ UNCHANGED <<poolVars, regVars>>

\* runSprintCheck up to its await on runAgent, or to its early return
\* ('No ready tasks found', 'Next task has no owner assigned'); the texts
\* of the tasks explored have a pattern (extractPattern is not null)
RunSprintCheck ==
    LET ready == ListTasks(tasks, "default", "ready") IN
    /\ IF ready = <<>>
       THEN UNCHANGED <<tasks, runs, patternTracker>>
       ELSE IF tasks[ready[1]].owner # NoOwner
       THEN /\ Len(runs) < MaxRuns
            /\ tasks' = UpdateTask(tasks, ready[1], [status |-> "in_progress"])
            /\ runs' = Append(runs, StartRun(tasks[ready[1]].owner, "sprint",
                                             ready[1], FALSE, TRUE))
            /\ patternTracker' = Tracked(TRUE)
       ELSE UNCHANGED <<tasks, runs, patternTracker>>
    /\ UNCHANGED <<followUps, perf, onNotification>>
    /\ UNCHANGED <<poolVars, regVars>>

\* runDailyStandup: runAgent('pm', 'Conduct daily standup: ...')
RunDailyStandup ==
    /\ Len(runs) < MaxRuns
    /\ runs' = Append(runs, StartRun("pm", "standup", 0, FALSE, TRUE))
    /\ patternTracker' = Tracked(TRUE)
    /\ UNCHANGED <<tasks, followUps, perf, onNotification>>
    /\ UNCHANGED <<poolVars, regVars>>

\* POST run-agent (OrchestrationController.runAgent): a direct call for a
\* worker identity that is not terminal
RunAgentCall ==
    /\ Len(runs) < MaxRuns
    /\ \E pat \in BOOLEAN :
          /\ runs' = Append(runs, StartRun("dev", "api", 0, FALSE, pat))
          /\ patternTracker' = Tracked(pat)
    /\ UNCHANGED <<tasks, followUps, perf, onNotification>>
    /\ UNCHANGED <<poolVars, regVars>>

\* the await on the backend (line 150) settles as the runner's runAgentTask
\* does, returning the output or throwing: a failure rejects runAgent
\* (there is no try block around the await); otherwise
\* lines 158-177 record the outcome, and the call goes on to the
\* notification sink or, without one, to its end; `known` tells whether
\* the registry knows the identity (recordTaskCompletion returns at once
\* for one it does not know)
BackendSettle(r, evs, pr, known) ==
    /\ runs[r].pc = "backend"
    /\ LET res == RunClaudeCode(evs)
           ret == RunAgentTask(res)
           ran == [runs[r] EXCEPT
                      !.exec = IF res.success THEN "ok" ELSE "failed",
                      !.log = Append(@, "backend")]
           rec == [ran EXCEPT !.result = ret.value, !.log = Append(@, "record")]
           fin == IF ret.thrown THEN ThrowRun(ran, ret.value)
                  ELSE IF onNotification THEN [rec EXCEPT !.pc = "notify"]
                  ELSE ReturnRun(rec)
       IN /\ runs' = [runs EXCEPT ![r] = fin]
          /\ perf' = IF ret.thrown \/ ~known THEN perf
                     ELSE [perf EXCEPT ![runs[r].agent] = @ + 1]
          /\ tasks' = Settle(tasks, fin, pr)
    /\ UNCHANGED <<followUps, patternTracker, onNotification>>
    /\ UNCHANGED <<poolVars, regVars>>

\* the calls explored in the orchestration flow are for registered identities
BackendDone(r, evs, pr) == BackendSettle(r, evs, pr, TRUE)

\* line 180: `await this.onNotification(...)` is in no try block
NotifyFailed(run) == ThrowRun([run EXCEPT !.log = Append(@, "notify")], "sink")

\* the await on the notification sink settles
NotifyDone(r, ok, pr) ==
    /\ runs[r].pc = "notify"
    /\ LET fin == IF ok THEN ReturnRun([runs[r] EXCEPT !.log = Append(@, "notify")])
                  ELSE NotifyFailed(runs[r])
       IN /\ runs' = [runs EXCEPT ![r] = fin]
          /\ tasks' = Settle(tasks, fin, pr)
    /\ UNCHANGED <<followUps, perf, patternTracker, onNotification>>
    /\ UNCHANGED <<poolVars, regVars>>

\* the planning continuation of run r gets the backend's answer (or the
\* backend call fails) and runs to its end: a rejection is logged by the
\* catch of line 184; a text that JSON.parse rejects, or whose value has no
\* fields (null), is logged by the catch of line 422, which returns []
PlanAnswer(r, ans) ==
    /\ runs[r].plan = "scheduled"
    /\ IF ~ans.ok
       THEN /\ runs' = [runs EXCEPT ![r] = PlanCatch(runs[r])]
            /\ UNCHANGED <<tasks, followUps>>
       ELSE LET parsed == JSONParse(ans.text) IN
            IF ~parsed.ok
            THEN /\ runs' = [runs EXCEPT ![r].plan = "unparsed"]
                 /\ UNCHANGED <<tasks, followUps>>
            ELSE IF parsed.value.isNull
            THEN /\ runs' = [runs EXCEPT ![r].plan = "unusable"]
                 /\ UNCHANGED <<tasks, followUps>>
            ELSE /\ tasks' = CreateAll(MarkReady(tasks, parsed.value.readyTasks),
                                       parsed.value.newTasks)
                 /\ followUps' = IF parsed.value.nextAgent # ""
                                 THEN Append(followUps, parsed.value.nextAgent)
                                 ELSE followUps
                 /\ runs' = [runs EXCEPT ![r].plan = "applied"]
    /\ UNCHANGED <<perf, patternTracker, onNotification>>
    /\ UNCHANGED <<poolVars, regVars>>

\* the timer of line 414 fires: runAgent(plan.nextAgent, plan.nextTask)
FollowUpFire ==
    /\ followUps # <<>>
    /\ Len(runs) < MaxRuns
    /\ \E pat \in BOOLEAN :
          /\ runs' = Append(runs, StartRun(Head(followUps), "followup", 0,
                                           FALSE, pat))
          /\ patternTracker' = Tracked(pat)
    /\ followUps' = Tail(followUps)
    /\ UNCHANGED <<tasks, perf, onNotification>>
    /\ UNCHANGED <<poolVars, regVars>>

\* POST /api/github/webhook, pull_request closed and merged, for the branch
\* of a task whose pull request is open
PrMerged(t) ==
    /\ tasks[t].status = "pr_created"
    /\ tasks' = UpdateTask(tasks, t, [status |-> "done"])
    /\ UNCHANGED <<runs, followUps, perf, patternTracker, onNotification>>
    /\ UNCHANGED <<poolVars, regVars>>

OrchNext ==
    \/ CreateTask
    \/ \E t \in TaskIds, body \in UpdateBodies : WebUpdate(t, body)
    \/ RunSprintCheck
    \/ RunDailyStandup
    \/ RunAgentCall
    \/ \E r \in RunIds, evs \in BackendEvents, pr \in BOOLEAN :
          BackendDone(r, evs, pr)
    \/ \E r \in RunIds, ok \in BOOLEAN, pr \in BOOLEAN : NotifyDone(r, ok, pr)
    \/ \E r \in RunIds, ans \in PlanAnswers(Len(tasks), Len(runs)) :
          PlanAnswer(r, ans)
    \/ FollowUpFire
    \/ \E t \in TaskIds : PrMerged(t)

OrchSpec == OrchInit /\ [][OrchNext]_vars

\* --------------------------------------------- the sprint check on a board
\* number of tasks on the boards the sprint check is explored on
MaxBoard == 2

\* the boards: tasks of any project, owner and priority, in the backlog or
\* ready (created through POST projects/{projectId}/tasks, made ready
\* through PATCH tasks/{taskId} or by planNextTasks)
Boards ==
    UNION {[1..n -> [project : Projects, status : {"backlog", "ready"},
                     owner : Owners, priority : Priorities,
                     output : {<<>>}]] : n \in 0..MaxBoard}

SprintInit ==
    /\ procs = <<>>
    /\ pool = <<>>
    /\ taskQueue = <<>>
    /\ isShuttingDown = FALSE
    /\ respawnTimers = 0
    /\ now = 0
    /\ subs = <<>>
    /\ initState = "idle"
    /\ tasks \in Boards
    /\ runs = <<>>
    /\ followUps = <<>>
    /\ perf = [a \in Agents |-> 0]
    /\ patternTracker = 0
    /\ onNotification \in BOOLEAN
    /\ RegIdle

SprintNext ==
    \/ RunSprintCheck
    \/ \E r \in RunIds, evs \in BackendEvents, pr \in BOOLEAN :
          BackendDone(r, evs, pr)
    \/ \E r \in RunIds, ok \in BOOLEAN, pr \in BOOLEAN : NotifyDone(r, ok, pr)

SprintSpec == SprintInit /\ [][SprintNext]_vars

\* ------------------------------------------------------------ properties
\* the steps of the orchestration flow that write a task status on their
\* own account: runSprintCheck, planNextTasks, the callbacks run when a
\* runAgent call settles, and the PR-merged webhook (the generic update of
\* PATCH tasks/{taskId} writes what its caller asks for)
FlowStep ==
    \/ RunSprintCheck
    \/ \E r \in RunIds, ans \in PlanAnswers(Len(tasks), Len(runs)) :
          PlanAnswer(r, ans)
    \/ \E r \in RunIds, evs \in BackendEvents, pr \in BOOLEAN :
          BackendDone(r, evs, pr)
    \/ \E r \in RunIds, ok \in BOOLEAN, pr \in BOOLEAN : NotifyDone(r, ok, pr)
    \/ \E t \in TaskIds : PrMerged(t)

\* C11: no step of the orchestration flow moves a task that is in_progress,
\* pr_created or done to ready (the edges of the status state machine
\* lead to ready from backlog only)
C11_NeverBackToReady ==
    [][FlowStep =>
          \A t \in TaskIds :
             tasks[t].status \in {"in_progress", "pr_created", "done"}
                => tasks'[t].status # "ready"]_vars

\* C12: in every reachable state of the task store a task whose status is
\* in_progress has an owner
C12_InProgressHasOwner ==
    \A t \in TaskIds :
       tasks[t].status = "in_progress" => tasks[t].owner # NoOwner

\* rank of a priority: P0 before P1 before P2 before absent
C13_Rank(p) == IF p = "P0" THEN 0 ELSE IF p = "P1" THEN 1
               ELSE IF p = "P2" THEN 2 ELSE 3
C13_Candidates ==
    {t \in TaskIds : tasks[t].project = "default" /\ tasks[t].status = "ready"}
\* the ready task of highest priority, the earliest created among equals
C13_Best(t) ==
    /\ t \in C13_Candidates
    /\ \A u \in C13_Candidates :
          \/ C13_Rank(tasks[t].priority) < C13_Rank(tasks[u].priority)
          \/ /\ C13_Rank(tasks[t].priority) = C13_Rank(tasks[u].priority)
             /\ t <= u
\* a sprint check that finds no ready task, or whose selected task has no
\* owner, changes no task and starts no runAgent; otherwise the selected
\* task, and only it, is in_progress once its runAgent call is started
C13_Select ==
    RunSprintCheck =>
       IF \A t \in TaskIds : C13_Best(t) => tasks[t].owner = NoOwner
       THEN UNCHANGED <<tasks, runs>>
       ELSE \E t \in TaskIds :
               /\ C13_Best(t)
               /\ tasks' = [tasks EXCEPT ![t].status = "in_progress"]
               /\ Len(runs') = Len(runs) + 1
               /\ SubSeq(runs', 1, Len(runs)) = runs
               /\ runs'[Len(runs')].origin = "sprint"
               /\ runs'[Len(runs')].task = t
               /\ runs'[Len(runs')].agent = tasks[t].owner
               /\ runs'[Len(runs')].pc = "backend"
\* the task of a sprint check becomes done in the step in which its
\* runAgent call returns, and in no other step of the call
C13_Finish ==
    \A r \in RunIds :
       (/\ runs[r].origin = "sprint"
        /\ runs[r].pc \in {"backend", "notify"}
        /\ runs'[r] # runs[r]) =>
          IF runs'[r].pc = "returned"
          THEN tasks' = [tasks EXCEPT ![runs[r].task].status = "done"]
          ELSE tasks' = tasks

\* C13: RunSprintCheck selects the ready task of the default collection of
\* highest priority (ties by earliest creation); with an owner the task is
\* in_progress when RunTask starts and done when RunTask has returned;
\* with no ready task or no owner nothing changes and RunTask is not invoked
C13_SprintCheck == [][C13_Select /\ C13_Finish]_vars

\* witness: a sprint check has run to its end on a task that was chosen by
\* priority over an earlier task that is still ready
C13_Witness ==
    \E r \in RunIds, u \in TaskIds :
       /\ runs[r].origin = "sprint"
       /\ runs[r].pc = "returned"
       /\ tasks[runs[r].task].status = "done"
       /\ u < runs[r].task
       /\ tasks[u].project = "default"
       /\ tasks[u].status = "ready"

\* the error texts of a failed backend invocation
C14_ErrorTexts == {"stderr", "spawn", "Timeout exceeded"}
\* the step in which the execution of a web-triggered run fails leaves the
\* task in the backlog with the error text in its output
C14_Failure ==
    \A r \in RunIds :
       (/\ runs[r].origin = "web"
        /\ runs[r].exec = "pending"
        /\ runs'[r].exec = "failed") =>
          /\ tasks'[runs[r].task].status = "backlog"
          /\ \E msg \in C14_ErrorTexts :
                tasks'[runs[r].task].output = <<"Error: ", msg>>
\* promoting an owned task of the backlog to ready starts a fresh execution
\* with the task in_progress
C14_Retry ==
    \A t \in TaskIds :
       (/\ tasks[t].status = "backlog"
        /\ tasks[t].owner # NoOwner
        /\ WebUpdate(t, [status |-> "ready"])) =>
          /\ tasks'[t].status = "in_progress"
          /\ Len(runs') = Len(runs) + 1
          /\ runs'[Len(runs')].origin = "web"
          /\ runs'[Len(runs')].task = t
          /\ runs'[Len(runs')].pc = "backend"
          /\ runs'[Len(runs')].exec = "pending"
\* the step in which a web-triggered run settles leaves the task done,
\* pr_created or back in the backlog
C14_Settled ==
    \A r \in RunIds :
       (/\ runs[r].origin = "web"
        /\ runs[r].pc \in {"backend", "notify"}
        /\ runs'[r].pc \in {"returned", "thrown"}) =>
          tasks'[runs[r].task].status \in {"done", "pr_created", "backlog"}

\* C14: when the execution triggered by promoting an owned task to ready
\* fails, the task ends in the backlog with the error text in output, and
\* promoting it to ready again triggers a fresh execution (in_progress,
\* then done, pr_created or the backlog again)
C14_FailureAndRetry == [][C14_Failure /\ C14_Retry /\ C14_Settled]_vars

\* witness: the first execution of a task failed, the task was promoted
\* again and its second execution has returned
C14_Witness ==
    \E r1 \in RunIds, r2 \in RunIds :
       /\ r1 < r2
       /\ runs[r1].origin = "web" /\ runs[r2].origin = "web"
       /\ runs[r1].task = runs[r2].task
       /\ runs[r1].exec = "failed" /\ runs[r1].pc = "thrown"
       /\ runs[r2].pc = "returned"
       /\ tasks[runs[r2].task].status \in {"done", "pr_created"}

\* the ways the primary backend invocation fails: the timeout, a spawn
\* error, a non-zero exit code
C15_Failures == {"timeout", "error", "closeN"}
\* a failed invocation is a failed result of the adapter and rejects the
\* runAgent call in the same step, with the error text of the failure
C15_Propagates ==
    \A r \in RunIds, evs \in BackendEvents, pr \in BOOLEAN :
       (BackendDone(r, evs, pr) /\ evs[1] \in C15_Failures) =>
          /\ ~RunClaudeCode(evs).success
          /\ runs'[r].exec = "failed"
          /\ runs'[r].pc = "thrown"
          /\ runs'[r].result \in {"Timeout exceeded", "spawn", "stderr"}
\* a call that has returned an outcome text had a successful invocation
C15_NoOutcomeOnFailure ==
    \A r \in RunIds : runs'[r].pc = "returned" => runs'[r].exec = "ok"

C16_SettledStays ==
    \A r \in RunIds :
       runs[r].pc \in {"returned", "thrown"} =>
          /\ runs'[r].pc = runs[r].pc
          /\ runs'[r].result = runs[r].result
\* a planning continuation that has not finished belongs to a call that
\* has already returned its outcome text
C16_NotAwaited ==
    \A r \in RunIds :
       runs'[r].plan # "none" =>
          runs'[r].pc = "returned" /\ runs'[r].result = "result"

\* C16: RunTask does not await PlanNextTasks, and no failure inside the
\* planning continuation changes the value returned by, or raises an error
\* in, the RunTask call that scheduled it
C16_PlanningIsolated == [][C16_SettledStays /\ C16_NotAwaited]_vars

\* witness: the follow-up call scheduled by the plan of a returned call
\* has failed, and its own planning never started
C16_Witness ==
    \E r \in RunIds, q \in RunIds :
       /\ runs[r].pc = "returned"
       /\ runs[r].result = "result"
       /\ runs[r].plan = "applied"
       /\ runs[q].origin = "followup"
       /\ runs[q].pc = "thrown"

\* C17: a failure of the notification sink (the summary broadcast after a
\* completed task) is swallowed, so RunTask still returns the outcome text
\* and still schedules planning
C17_SinkFailureSwallowed ==
    [][\A r \in RunIds, pr \in BOOLEAN :
          NotifyDone(r, FALSE, pr) =>
             /\ runs'[r].pc = "returned"
             /\ runs'[r].result = "result"
             /\ runs[r].agent \notin TerminalAgents
                   => runs'[r].plan = "scheduled"]_vars

\* C18: a RunTask whose primary execution has succeeded and that has come
\* to its end has scheduled a PlanNextTasks continuation if and only if
\* its worker identity is not terminal
C18_PlansIffNotTerminal ==
    \A r \in RunIds :
       (runs[r].exec = "ok" /\ runs[r].pc \in {"returned", "thrown"}) =>
          (runs[r].plan # "none" <=> runs[r].agent \notin TerminalAgents)

\* C19: when the backend's answer to PlanNextTasks is not parseable JSON,
\* PlanNextTasks returns an empty list, changes and creates no task,
\* schedules no follow-up RunTask and raises no error
C19_UnparseablePlanIsNoPlan ==
    [][\A r \in RunIds :
          PlanAnswer(r, [ok |-> TRUE, text |-> [json |-> FALSE]]) =>
             /\ tasks' = tasks
             /\ followUps' = followUps
             /\ Len(runs') = Len(runs)
             /\ runs'[r].plan = "unparsed"
             /\ runs'[r].pc = runs[r].pc]_vars

\* witness: a planning continuation got a text that is not JSON while a
\* task it could have marked ready was on the board
C19_Witness ==
    \E r \in RunIds, t \in TaskIds :
       /\ runs[r].plan = "unparsed"
       /\ tasks[t].status # "ready"

\* position of x in the sequence order, 0 if absent
C20_Pos(order, x) ==
    IF \E i \in 1..Len(order) : order[i] = x
    THEN CHOOSE i \in 1..Len(order) : order[i] = x ELSE 0
\* the steps of log happen in the order given
C20_InOrder(log, order) ==
    \A i \in 1..Len(log), j \in 1..Len(log) :
       i < j => C20_Pos(order, log[i]) < C20_Pos(order, log[j])
\* the order the claim states, and the order of the code
C20_ClaimedOrder == <<"backend", "record", "pattern", "rules", "notify", "plan">>
C20_CodeOrder == <<"rules", "pattern", "backend", "record", "notify", "plan">>

\* C20: within one RunTask the steps happen in the order backend
\* execution, outcome recording, Pattern Tracker update, Rule Engine
\* evaluation, follow-up planning, so that the Rule Engine is evaluated
\* after the outcome of the current task was recorded
C20_RulesAfterOutcome ==
    \A r \in RunIds :
       /\ C20_InOrder(runs[r].log, C20_ClaimedOrder)
       /\ C20_Pos(runs[r].log, "rules") > 0 =>
             /\ C20_Pos(runs[r].log, "record") > 0
             /\ C20_Pos(runs[r].log, "record") < C20_Pos(runs[r].log, "rules")

\* C20 as amended: within one RunTask the steps happen in the order Rule
\* Engine evaluation, Pattern Tracker update, backend execution, outcome
\* recording, follow-up planning; the Rule Engine is evaluated on metrics
\* that do not include the outcome of the current task
C20_RulesBeforeBackend ==
    \A r \in RunIds :
       /\ C20_InOrder(runs[r].log, C20_CodeOrder)
       /\ runs[r].log[1] = "rules"
       /\ C20_Pos(runs[r].log, "record") > 0 =>
             perf[runs[r].agent] > runs[r].metrics

\* witness: a call has gone through all of its steps
C20_Witness ==
    \E r \in RunIds :
       runs[r].log = <<"rules", "pattern", "backend", "record", "plan">>

\* ===================================================== the agent registry
\* ------------------------------------------------------ performance records
\* number of recordTaskCompletion calls explored
MaxRecordings == 8
\* execution times in milliseconds (Date.now() - startTime)
ExecTimes == {1000, 3000}

\* the letters String.prototype.toLowerCase maps
UpperCase == <<"A", "B", "C", "D", "E", "F", "G", "H", "I", "J", "K", "L", "M",
               "N", "O", "P", "Q", "R", "S", "T", "U", "V", "W", "X", "Y", "Z">>
LowerCase == <<"a", "b", "c", "d", "e", "f", "g", "h", "i", "j", "k", "l", "m",
               "n", "o", "p", "q", "r", "s", "t", "u", "v", "w", "x", "y", "z">>

\* String.prototype.toLowerCase
ToLowerCase(text) ==
    [i \in 1..Len(text) |->
        IF \E k \in 1..26 : UpperCase[k] = text[i]
        THEN LowerCase[CHOOSE k \in 1..26 : UpperCase[k] = text[i]]
        ELSE text[i]]

\* String.prototype.includes
Includes(text, part) ==
    \E i \in 1..(Len(text) - Len(part) + 1) :
        SubSeq(text, i, i + Len(part) - 1) = part

\* results of the backend, as sequences of characters
TextDone == <<"d", "o", "n", "e">>
TextNoErrorFound ==
    <<"n", "o", " ", "e", "r", "r", "o", "r", " ", "f", "o", "u", "n", "d">>
TextBuildFailed ==
    <<"B", "u", "i", "l", "d", " ", "F", "A", "I", "L", "E", "D">>
TextFix == <<"f", "i", "x", "e", "d", " ", "E", "r", "r", "o", "r", "s">>
TextFair == <<"f", "a", "i", "r", " ", "e", "r", "a">>
ResultTexts == {TextDone, TextNoErrorFound, TextBuildFailed, TextFix, TextFair}

\* runAgent's success heuristic
Success_CaseSensitive(result) ==
    /\ ~Includes(result, <<"f", "a", "i", "l", "e", "d">>)
    /\ ~Includes(result, <<"e", "r", "r", "o", "r">>)

Success(result) ==
    /\ ~Includes(ToLowerCase(result), <<"f", "a", "i", "l", "e", "d">>)
    /\ ~Includes(ToLowerCase(result), <<"e", "r", "r", "o", "r">>)

\* getAgent: the stored definition, or null (NoAgent)
GetAgent(agents, id) == IF id \in DOMAIN agents THEN agents[id] ELSE NoAgent

\* agent.performance || { tasksCompleted: 0, ... }
PerfOf(agent) == IF agent.hasPerf THEN agent.performance ELSE ZeroPerf

Min(x, y) == IF x <= y THEN x ELSE y

\* learnings kept: [...perf.learnings, ...learnings].slice(-20)
MaxLearnings == 20

RunningMean_DropOld(avg, n, executionTime) ==
    FloatDiv(FloatAdd(avg, executionTime), n)

\* (avgExecutionTime * (tasksCompleted - 1) + executionTime) / tasksCompleted
RunningMean(avg, n, executionTime) ==
    FloatDiv(FloatAdd(FloatMul(avg, n - 1), executionTime), n)

\* the performance after one more completion
Completed(pf, success, executionTime, learnt) ==
    [tasksCompleted |-> pf.tasksCompleted + 1,
     tasksSuccessful |-> pf.tasksSuccessful + (IF success THEN 1 ELSE 0),
     avgExecutionTime |->
         RunningMean(pf.avgExecutionTime, pf.tasksCompleted + 1, executionTime),
     learnings |-> Min(pf.learnings + learnt, MaxLearnings)]

\* updateAgent(id, { performance }, 'system') on the definition it re-read
UpdatePerformance(agents, id, existing, pf) ==
    IF ~existing.known THEN agents
    ELSE [agents EXCEPT ![id] =
             [existing EXCEPT !.hasPerf = TRUE, !.performance = pf,
                              !.version = existing.version + 1]]

\* an identity as parseAgentFile loads it (no performance yet) or as
\* createAgent stores it (an all-zero performance)
AgentDef(role, created) ==
    [known |-> TRUE, role |-> role, version |-> 1, hasPerf |-> created,
     performance |-> ZeroPerf]

LogEntry(op, key, val) == [op |-> op, key |-> key, val |-> val]

\* recordTaskCompletion without an external store, awaited by its caller
\* before the next recording starts: getAgent and updateAgent wait for
\* nothing outside the process and no other recording runs in between
RecordInMemory(a, result, t, learnt) ==
    /\ ~redis.connected
    /\ Len(regLog) < MaxRecordings
    /\ LET agent == GetAgent(memAgents, a)
       IN  /\ memAgents' =
                 UpdatePerformance(memAgents, a, agent,
                     Completed(PerfOf(agent), Success(result), t, learnt))
           /\ regLog' = Append(regLog, LogEntry("record", a, t))
    /\ UNCHANGED <<memRules, memSkills, patterns, redis, regRuns, evals>>
    /\ UNCHANGED <<poolVars, orchVars>>

RegOthersIdle ==
    /\ procs = <<>>
    /\ pool = <<>>
    /\ taskQueue = <<>>
    /\ isShuttingDown = FALSE
    /\ respawnTimers = 0
    /\ now = 0
    /\ subs = <<>>
    /\ initState = "idle"
    /\ OrchIdle

\* "dev" is registered, with or without a performance record; "pm" is not
MeanInit ==
    /\ RegOthersIdle
    /\ memRules = DEFAULT_RULES
    /\ memAgents \in {[a \in Agents |->
                          IF a = "dev" THEN AgentDef("specialist", created)
                          ELSE NoAgent] : created \in BOOLEAN}
    /\ memSkills = <<>>
    /\ patterns = <<>>
    /\ redis = NoRedis
    /\ regRuns = <<>>
    /\ evals = NoEval
    /\ regLog = <<>>

MeanNext ==
    \E result \in {TextDone, TextNoErrorFound}, t \in ExecTimes :
        RecordInMemory("dev", result, t, 0)

MeanSpec == MeanInit /\ [][MeanNext]_vars

\* -------------------------------------------------------------- rule engine
\* number of addRule calls explored
MaxAddRules == 2

MetricNames ==
    {"domain_task_count", "existing_specialist", "pattern_occurrence",
     "existing_skill", "success_rate", "tasks_completed", "pending_tasks",
     "available_delegates", "task_started", "task_completed",
     "avg_execution_time", "learnings_count", "agent_role"}

\* a metrics map holds a value or nothing (undefined) under every name
NoMetrics == [k \in MetricNames |-> Undefined]
With(metrics, k, v) == [metrics EXCEPT ![k] = v]

\* a RuleContext; agentId "" stands for a context without agentId
RuleContext(agentId, metrics) == [agentId |-> agentId, metrics |-> metrics]

Max(x, y) == IF x >= y THEN x ELSE y

\* metrics = { ...context.metrics }, then the values derived from
\* agent.performance written over them
BuildMetrics(context, agent) ==
    IF ~(agent.known /\ agent.hasPerf) THEN context.metrics
    ELSE LET pf == agent.performance
         IN  [k \in MetricNames |->
                CASE k = "success_rate" ->
                         Num(pf.tasksSuccessful, Max(pf.tasksCompleted, 1))
                  [] k = "tasks_completed" -> Num(pf.tasksCompleted, 1)
                  [] k = "avg_execution_time" -> Number(pf.avgExecutionTime)
                  [] k = "learnings_count" -> Num(pf.learnings, 1)
                  [] k = "agent_role" -> Str(agent.role)
                  [] OTHER -> context.metrics[k]]

\* the number a threshold is compared as by >, <, >= and <=: a string is
\* converted, and one that is not numeric gives NaN
ToNumber(v) ==
    IF v.typ = "number" THEN v
    ELSE IF v.s = "5" THEN Num(5, 1) ELSE NaN

EvalCondition_NoTypeCheck(metrics, cond) ==
    LET value == IF cond.metric \in DOMAIN metrics THEN metrics[cond.metric]
                 ELSE Undefined
        bound == ToNumber(cond.value)
        num == ToNumber(value)
    IN  CASE cond.operator = "gt" ->
                 num.typ = "number" /\ bound.typ = "number"
                                    /\ FloatLess(bound.x, num.x)
          [] cond.operator = "lt" ->
                 num.typ = "number" /\ bound.typ = "number"
                                    /\ FloatLess(num.x, bound.x)
          [] cond.operator = "gte" ->
                 num.typ = "number" /\ bound.typ = "number"
                                    /\ FloatLessEq(bound.x, num.x)
          [] cond.operator = "lte" ->
                 num.typ = "number" /\ bound.typ = "number"
                                    /\ FloatLessEq(num.x, bound.x)
          [] cond.operator = "eq" -> num = bound
          [] OTHER -> TRUE

\* one condition against the metrics map (the switch on cond.operator)
EvalCondition(metrics, cond) ==
    LET value == IF cond.metric \in DOMAIN metrics THEN metrics[cond.metric]
                 ELSE Undefined
        bound == ToNumber(cond.value)
    IN  IF value.typ = "undefined" THEN FALSE
        ELSE CASE cond.operator = "gt" ->
                      value.typ = "number" /\ bound.typ = "number"
                                           /\ FloatLess(bound.x, value.x)
               [] cond.operator = "lt" ->
                      value.typ = "number" /\ bound.typ = "number"
                                           /\ FloatLess(value.x, bound.x)
               [] cond.operator = "gte" ->
                      value.typ = "number" /\ bound.typ = "number"
                                           /\ FloatLessEq(bound.x, value.x)
               [] cond.operator = "lte" ->
                      value.typ = "number" /\ bound.typ = "number"
                                           /\ FloatLessEq(value.x, bound.x)
               [] cond.operator = "eq" -> value = cond.value
               [] OTHER -> FALSE

\* rule.conditions.map(cond => ...)
ConditionResults(metrics, rule) ==
    [i \in 1..Len(rule.conditions) |-> EvalCondition(metrics, rule.conditions[i])]

Every_Some(results) == \E i \in 1..Len(results) : results[i]

\* conditionResults.every(r => r)
Every(results) == \A i \in 1..Len(results) : results[i]

\* the RuleEvaluation pushed for a triggered rule
Evaluation(rule) ==
    [ruleId |-> rule.id, triggered |-> TRUE, action |-> rule.action,
     reason |-> rule.id, autoApply |-> rule.autoApply]

\* the loop over this.memRules.values()
EvaluateRules(rules, metrics) ==
    LET hit == SelectSeq(rules, LAMBDA r : Every(ConditionResults(metrics, r)))
    IN  [i \in 1..Len(hit) |-> Evaluation(hit[i])]

\* Map.set(rule.id, rule): an existing id keeps its place
SetRule(rules, rule) ==
    IF \E i \in 1..Len(rules) : rules[i].id = rule.id
    THEN [i \in 1..Len(rules) |-> IF rules[i].id = rule.id THEN rule ELSE rules[i]]
    ELSE Append(rules, rule)

\* rules a caller may add through addRule
CustomRules ==
    { RuleDef("always", "suggest", <<>>, TRUE),
      RuleDef("manager-role", "suggest",
              << Cond("agent_role", "contains", Str("manager")) >>, FALSE),
      RuleDef("five-as-text", "suggest",
              << Cond("tasks_completed", "eq", Str("5")) >>, FALSE),
      RuleDef("five-or-more", "evolve",
              << Cond("tasks_completed", "gte", Str("5")) >>, FALSE),
      RuleDef("docs-read-before-task", "suggest", <<>>, TRUE) }

\* explicit metrics a caller may pass in the context
ContextMetrics ==
    { NoMetrics,
      With(With(NoMetrics, "domain_task_count", Num(5, 1)),
           "existing_specialist", Num(0, 1)),
      With(NoMetrics, "domain_task_count", Num(5, 1)),
      With(With(NoMetrics, "domain_task_count", Num(4, 1)),
           "existing_specialist", Num(0, 1)),
      With(With(With(NoMetrics, "pattern_occurrence", Num(3, 1)),
                "existing_skill", Num(0, 1)), "task_started", Num(1, 1)),
      With(With(NoMetrics, "task_started", Str("1")),
           "task_completed", Num(1, 1)),
      With(With(NoMetrics, "tasks_completed", Str("5")),
           "agent_role", Str("manager")),
      With(With(NoMetrics, "tasks_completed", Num(5, 1)),
           "success_rate", Num(9, 10)) }

RuleContexts ==
    {RuleContext(a, m) : a \in {"", "dev", "pm"}, m \in ContextMetrics}

\* a performance after completed tasks of 1500 ms each, successful of them
PerfAfter(completed, successful) ==
    [tasksCompleted |-> completed, tasksSuccessful |-> successful,
     avgExecutionTime |-> FloatOfNat(IF completed = 0 THEN 0 ELSE 1500),
     learnings |-> 0]

\* an identity after its recorded completions
AgentAfter(role, completed, successful) ==
    [known |-> TRUE, role |-> role, version |-> 1 + completed,
     hasPerf |-> TRUE, performance |-> PerfAfter(completed, successful)]

\* addRule
AddRule(rule) ==
    /\ Len(regLog) < MaxAddRules
    /\ memRules' = SetRule(memRules, rule)
    /\ regLog' = Append(regLog, LogEntry("addRule", rule.id, 0))
    /\ UNCHANGED <<memAgents, memSkills, patterns, redis, regRuns, evals>>
    /\ UNCHANGED <<poolVars, orchVars>>

\* context.agentId ? await this.getAgent(context.agentId) : null
ContextAgent(context) ==
    IF context.agentId # "" THEN GetAgent(memAgents, context.agentId)
    ELSE NoAgent

\* what an evaluateRules call was given, read and returned
Evaluated(context, rules, agent) ==
    [called |-> TRUE, context |-> context, rules |-> rules, agent |-> agent,
     result |-> EvaluateRules(rules, BuildMetrics(context, agent))]

EvaluateRulesCall_Consuming(context) ==
    /\ evals' = Evaluated(context, memRules, ContextAgent(context))
    /\ memRules' = SelectSeq(memRules,
                       LAMBDA r : \A i \in 1..Len(evals'.result) :
                                      evals'.result[i].ruleId # r.id)
    /\ UNCHANGED <<memAgents, memSkills, patterns, redis, regRuns, regLog>>
    /\ UNCHANGED <<poolVars, orchVars>>

\* evaluateRules(context)
EvaluateRulesCall(context) ==
    /\ evals' = Evaluated(context, memRules, ContextAgent(context))
    /\ UNCHANGED <<memRules, memAgents, memSkills, patterns, redis, regRuns,
                   regLog>>
    /\ UNCHANGED <<poolVars, orchVars>>

\* "dev" was loaded from a file or has a performance record; "pm" is unknown
RuleInit ==
    /\ RegOthersIdle
    /\ memRules = DEFAULT_RULES
    /\ memAgents \in
          {[a \in Agents |-> IF a = "dev" THEN dev ELSE NoAgent] :
              dev \in {AgentDef("specialist", FALSE),
                       AgentAfter("specialist", 12, 8),
                       AgentAfter("manager", 10, 8),
                       AgentAfter("specialist", 5, 1),
                       AgentAfter("support", 9, 2)}}
    /\ memSkills = <<>>
    /\ patterns = <<>>
    /\ redis = NoRedis
    /\ regRuns = <<>>
    /\ evals = NoEval
    /\ regLog = <<>>

RuleNext ==
    \/ \E rule \in CustomRules : AddRule(rule)
    \/ \E context \in RuleContexts : EvaluateRulesCall(context)

RuleSpec == RuleInit /\ [][RuleNext]_vars

\* ------------------------------------------------------ properties C21..C23
\* whether the last evaluateRules call returned the rule of this id
Triggered(id) == \E i \in 1..Len(evals.result) : evals.result[i].ruleId = id
EvalMetrics == BuildMetrics(evals.context, evals.agent)

\* C21 (part): a rule of the table is returned as triggered exactly when
\* every one of its conditions evaluates true against the metrics map that
\* the call built; a rule without conditions is always returned.
C21_AllConditions ==
    evals.called =>
        \A i \in 1..Len(evals.rules) :
            LET rule == evals.rules[i]
            IN  /\ Triggered(rule.id) <=>
                       \A c \in 1..Len(rule.conditions) :
                           EvalCondition(EvalMetrics, rule.conditions[c])
                /\ rule.conditions = <<>> => Triggered(rule.id)

\* C21 (part): an identity with tasksCompleted = 12 and tasksSuccessful = 8
\* triggers evolve-on-low-success, and create-specialist-on-repeated-domain
\* is not triggered when the context supplies no domain count.
C21_Instance ==
    (/\ evals.called
     /\ evals.agent.hasPerf
     /\ evals.agent.performance.tasksCompleted = 12
     /\ evals.agent.performance.tasksSuccessful = 8)
    => /\ Triggered("evolve-on-low-success")
       /\ evals.context.metrics["domain_task_count"] = Undefined
             => ~Triggered("create-specialist-on-repeated-domain")

\* C21: Evaluate returns a rule as triggered if and only if each of its
\* conditions evaluates true against the metrics (logical AND); a rule with
\* an empty condition list always triggers; an identity with 12 completed
\* and 8 successful tasks triggers evolve-on-low-success and not
\* create-specialist-on-repeated-domain.
C21_TriggeredIffAllConditions == C21_AllConditions /\ C21_Instance

\* the 12/8 identity was evaluated with a rule without conditions in the
\* table; create-specialist-on-repeated-domain, with one true and one
\* false condition, was left out
C21_Witness ==
    /\ evals.called
    /\ evals.agent.hasPerf
    /\ evals.agent.performance.tasksCompleted = 12
    /\ evals.context.metrics["domain_task_count"] = Num(5, 1)
    /\ evals.context.metrics["existing_specialist"] = Undefined
    /\ Triggered("evolve-on-low-success")
    /\ Triggered("always")
    /\ ~Triggered("create-specialist-on-repeated-domain")

\* a step is a call of evaluateRules exactly when it is one with the
\* context that the step leaves in evals
C22_Step ==
    (/\ evals'.called
     /\ regLog' = regLog
     /\ EvaluateRulesCall(evals'.context))
    => /\ UNCHANGED <<memRules, patterns, memAgents, memSkills>>
       /\ (/\ evals.called
           /\ evals.context = evals'.context
           /\ evals.agent = ContextAgent(evals.context)
           /\ evals.rules = memRules)
          => evals'.result = evals.result

InTable(id) == \E i \in 1..Len(evals.rules) : evals.rules[i].id = id
OrderOperators == {"gt", "lt", "gte", "lte"}

C23_False(cond) ==
    LET value == EvalMetrics[cond.metric]
    IN  \/ value = Undefined
        \/ cond.operator \in OrderOperators /\ value.typ # "number"
        \/ cond.operator \notin OrderOperators \cup {"eq"}
        \/ cond.operator = "eq" /\ value # cond.value
        \/ cond.operator = "eq" /\ value.typ = "number"
                                /\ cond.value.typ = "string"

\* C23: Condition evaluation never throws: every evaluateRules call returns,
\* and a rule is not triggered if one of its conditions names a metric that
\* the metrics map does not hold, compares a value that is not a number
\* with gt, lt, gte or lte, has an operator other than gt, lt, gte, lte and
\* eq, or has the operator eq and a value not strictly equal to the
\* threshold (a number never equals a string).
C23_MismatchIsFalse ==
    evals.called =>
        \A i \in 1..Len(evals.rules) :
            \A c \in 1..Len(evals.rules[i].conditions) :
                C23_False(evals.rules[i].conditions[c])
                    => ~Triggered(evals.rules[i].id)

\* the metrics hold the strings "manager" and "5": the rule with the
\* operator contains and the rule comparing the string with gte are not
\* triggered, the rule whose eq threshold is the string "5" is
C23_Witness ==
    /\ evals.called
    /\ EvalMetrics["agent_role"] = Str("manager")
    /\ EvalMetrics["tasks_completed"] = Str("5")
    /\ InTable("manager-role") /\ ~Triggered("manager-role")
    /\ InTable("five-as-text") /\ Triggered("five-as-text")
    /\ InTable("evolve-on-low-success") /\ ~Triggered("evolve-on-low-success")

\* ---------------------------------------------------------- pattern tracker
\* number of trackPattern calls explored
MaxTracks == 7
\* examples kept per pattern: [...existing.examples.slice(-4), example]
KeptBefore == 4

\* the pattern keys and the task texts explored
PatternKeys == {"implement-endpoint", "fix-bug"}
Examples == {"task A", "task B"}

\* the domain extractPattern pairs with a pattern
DomainOf(pattern) == IF pattern = "implement-endpoint" THEN "api" ELSE "debugging"

\* Array.prototype.slice(-k)
SliceLast(seq, k) ==
    IF Len(seq) <= k THEN seq ELSE SubSeq(seq, Len(seq) - k + 1, Len(seq))

\* this.patternTracker.get(pattern): its place in the map, 0 if absent
PatternIndex(pt, pattern) ==
    IF \E i \in 1..Len(pt) : pt[i].pattern = pattern
    THEN CHOOSE i \in 1..Len(pt) : pt[i].pattern = pattern
    ELSE 0

TrackPattern_Restart(pt, pattern, domain, example) ==
    LET i == PatternIndex(pt, pattern)
    IN  IF i # 0 /\ Len(pt[i].examples) > KeptBefore
        THEN [pt EXCEPT ![i].occurrences = 1, ![i].examples = <<example>>]
        ELSE IF i # 0
        THEN [pt EXCEPT ![i].occurrences = @ + 1,
                        ![i].examples = Append(@, example)]
        ELSE Append(pt, [pattern |-> pattern, domain |-> domain,
                         occurrences |-> 1, examples |-> <<example>>])

\* trackPattern: the pattern table after the call
TrackPattern(pt, pattern, domain, example) ==
    LET i == PatternIndex(pt, pattern)
    IN  IF i # 0
        THEN [pt EXCEPT ![i].occurrences = @ + 1,
                        ![i].examples =
                            Append(SliceLast(@, KeptBefore), example)]
        ELSE Append(pt, [pattern |-> pattern, domain |-> domain,
                         occurrences |-> 1, examples |-> <<example>>])

\* a call of trackPattern
Track(pattern, example) ==
    /\ Len(regLog) < MaxTracks
    /\ patterns' = TrackPattern(patterns, pattern, DomainOf(pattern), example)
    /\ regLog' = Append(regLog, LogEntry("track", pattern, example))
    /\ UNCHANGED <<memRules, memAgents, memSkills, redis, regRuns, evals>>
    /\ UNCHANGED <<poolVars, orchVars>>

PatternInit == RegOthersIdle /\ RegIdle

PatternNext == \E pattern \in PatternKeys, example \in Examples : Track(pattern, example)

PatternSpec == PatternInit /\ [][PatternNext]_vars

\* ------------------------------------------------------------ property C24
\* the examples of the Track calls made so far for a pattern, in call order
C24_ExamplesOf(log, pattern) ==
    LET calls == SelectSeq(log, LAMBDA c : c.op = "track" /\ c.key = pattern)
    IN  [i \in 1..Len(calls) |-> calls[i].val]

C24_Counts ==
    \A pattern \in PatternKeys :
        LET calls == C24_ExamplesOf(regLog, pattern)
            i == PatternIndex(patterns, pattern)
        IN  IF calls = <<>> THEN i = 0
            ELSE /\ i # 0
                 /\ patterns[i].occurrences = Len(calls)
                 /\ Len(patterns[i].examples) <= 5
                 /\ patterns[i].examples = SliceLast(calls, Min(Len(calls), 5))

C24_NeverRemoved ==
    \A i \in 1..Len(patterns) :
        /\ i <= Len(patterns')
        /\ patterns'[i].pattern = patterns[i].pattern
        /\ patterns'[i].occurrences >= patterns[i].occurrences

\* C24: Pattern tracking is monotonic: after k Track calls with one pattern
\* key, however interleaved with Track calls for other keys, the record's
\* occurrences is k, its examples are never more than 5 and are the last
\* min(k, 5) examples in call order; a record is never removed and its
\* count never decreases.
C24_TrackingMonotonic == [][C24_Counts' /\ C24_NeverRemoved]_vars

\* six calls for one key, interleaved with a call for the other key: the
\* first example has left the ring
C24_Witness ==
    /\ Len(patterns) = 2
    /\ patterns[1].occurrences = 6
    /\ patterns[1].examples # SubSeq(C24_ExamplesOf(regLog, patterns[1].pattern), 1, 5)
    /\ regLog[2].key # regLog[1].key
    /\ regLog[1].val # regLog[3].val

\* ------------------------------------------------------------ property C25
\* the execution times recorded so far for an identity, and their sum
C25_Times(a) ==
    LET calls == SelectSeq(regLog, LAMBDA c : c.op = "record" /\ c.key = a)
    IN  [i \in 1..Len(calls) |-> calls[i].val]

RECURSIVE C25_Sum(_)
C25_Sum(ts) == IF ts = <<>> THEN 0 ELSE Head(ts) + C25_Sum(Tail(ts))

\* a < b for large naturals without leading zero digits
C25_Less(a, b) ==
    \/ Len(a) < Len(b)
    \/ Len(a) = Len(b) /\ \E i \in 1..Len(a) :
                              /\ a[i] < b[i]
                              /\ \A j \in 1..(i - 1) : a[j] = b[j]

RECURSIVE C25_SubFrom(_, _, _, _, _)
C25_SubFrom(a, b, i, borrow, acc) ==
    IF i >= Len(a) THEN StripLeading(acc)
    ELSE LET diff == DigitAt(a, i) - DigitAt(b, i) - borrow
         IN  IF diff >= 0 THEN C25_SubFrom(a, b, i + 1, 0, <<diff>> \o acc)
             ELSE C25_SubFrom(a, b, i + 1, 1, <<diff + Radix>> \o acc)

\* |a - b| for large naturals
C25_Distance(a, b) ==
    IF C25_Less(a, b) THEN C25_SubFrom(b, a, 0, 0, <<>>)
    ELSE C25_SubFrom(a, b, 0, 0, <<>>)

\* the relative tolerance is n * 2^-50: three roundings per recording,
\* each of at most 2^-53, leave the running mean within it
C25_ToleranceBits == Precision - 3

\* | avg * n - sum | * 2^50 <= n * sum, in units of 2^low
C25_WithinTolerance(avg, n, sum) ==
    LET low == IF avg.e < 0 THEN avg.e ELSE 0
        total == ShiftLeft(NatToDigits(sum), 0 - low)
        scaled == ShiftLeft(BigMul(avg.m, n), avg.e - low)
        bound == BigMul(total, n)
        error == ShiftLeft(C25_Distance(scaled, total), C25_ToleranceBits)
    IN  error = bound \/ C25_Less(error, bound)

C25_Recorded(a) ==
    /\ memAgents[a].known
    /\ C25_Times(a) # <<>>

\* C25 as stated: after n sequential recordings tasksCompleted = n and
\* avgExecutionTime equals the arithmetic mean of the recorded times (the
\* number that (t1 + ... + tn) / n evaluates to).
C25_ExactMean ==
    \A a \in Agents :
        C25_Recorded(a) =>
            LET ts == C25_Times(a)
                pf == memAgents[a].performance
            IN  /\ pf.tasksCompleted = Len(ts)
                /\ pf.avgExecutionTime =
                       FloatDiv(FloatOfNat(C25_Sum(ts)), Len(ts))

\* C25 (amended): after n sequential recordings with execution times
\* t1..tn for one identity, tasksCompleted = n and avgExecutionTime equals
\* the arithmetic mean (t1 + ... + tn) / n within floating-point tolerance
\* (a relative error of at most n * 2^-50), whatever the success flag of
\* each recording and in whatever order successes and failures occur.
C25_MeanWithinTolerance ==
    \A a \in Agents :
        C25_Recorded(a) =>
            LET ts == C25_Times(a)
                pf == memAgents[a].performance
            IN  /\ pf.tasksCompleted = Len(ts)
                /\ pf.tasksSuccessful <= Len(ts)
                /\ C25_WithinTolerance(pf.avgExecutionTime, Len(ts),
                                       C25_Sum(ts))

\* eight recordings, successes and failures among them, whose running mean
\* is not the double nearest to the arithmetic mean
C25_Witness ==
    /\ Len(C25_Times("dev")) = 8
    /\ memAgents["dev"].performance.tasksSuccessful \in 1..7
    /\ memAgents["dev"].performance.avgExecutionTime #
           FloatDiv(FloatOfNat(C25_Sum(C25_Times("dev"))), 8)

\* ---------------------------------------------------- runAgent (registry)
\* runAgent against a registry with an external store connected: every
\* getAgent and every write of an agent waits for the store, and calls that
\* are in progress take their steps in any order.  Without a store the
\* completions are those of MeanSpec.

\* number of runAgent calls explored, of calls explored for one task pattern,
\* and of calls in progress at a time
MaxCalls == 3
MaxPatternCalls == 4
MaxInFlight == 2

\* getAgent: the store's copy if it has one, else the one in memAgents
StoredAgent(id) ==
    IF redis.connected /\ GetAgent(redis.agents, id).known
    THEN redis.agents[id]
    ELSE GetAgent(memAgents, id)

CanAgentPerform_AnyRole(agent, action) ==
    agent.known /\ agent.role \in DOMAIN DEFAULT_ROLES

\* canAgentPerform, on the definition getAgent returned
CanAgentPerform(agent, action) ==
    IF ~agent.known THEN FALSE
    ELSE IF agent.role \notin DOMAIN DEFAULT_ROLES THEN FALSE
    ELSE CASE action = "createAgent" ->
                  DEFAULT_ROLES[agent.role].canCreateAgents
           [] action = "createSkill" ->
                  DEFAULT_ROLES[agent.role].canCreateSkills
           [] action = "modifyOthers" ->
                  DEFAULT_ROLES[agent.role].canModifyOthers
           [] OTHER -> FALSE

\* the task texts explored
TaskEndpoint == "implement payments endpoint"
TaskHello == "say hello"

\* extractPattern on the task texts explored: the first regular expression
\* that matches, else the domain detectDomain finds, else null
NoPattern == [found |-> FALSE, pattern |-> "", domain |-> ""]
ExtractPattern(task) ==
    CASE task = TaskEndpoint ->
             [found |-> TRUE, pattern |-> "implement-endpoint", domain |-> "api"]
      [] task = "fix bug in login" ->
             [found |-> TRUE, pattern |-> "fix-bug", domain |-> "debugging"]
      [] OTHER -> NoPattern

\* a "## New Agent Request" or "## New Skill Request" block of a result as
\* the regular expressions of processAgentRequests match it: whether the
\* block is there, whether all the fields the request needs are, the name
\* (already an id: lower-case letters) and the role ("" without a role line)
NoRequest == [present |-> FALSE, complete |-> FALSE, name |-> "", role |-> ""]
Request(name, role, complete) ==
    [present |-> TRUE, complete |-> complete, name |-> name, role |-> role]

\* the text the backend returns: its characters and its request blocks
Result(text, agentRequest, skillRequest) ==
    [text |-> text, agentRequest |-> agentRequest,
     skillRequest |-> skillRequest]
NoResult == Result(<<>>, NoRequest, NoRequest)

\* the prompt sent to the backend: which parts of
\* getSelfImprovementInstructions it holds and the rules listed under
\* "Self-Improvement Suggestions"
Prompt(canCreateAgents, canCreateSkills, suggestions) ==
    [creatingAgents |-> canCreateAgents, creatingSkills |-> canCreateSkills,
     suggestions |-> suggestions]
NoPrompt == Prompt(FALSE, FALSE, <<>>)

\* ruleEvaluations.filter(e => e.triggered && !e.autoApply)
TriggeredSuggestions(evaluations) ==
    LET shown == SelectSeq(evaluations,
                           LAMBDA e : e.triggered /\ ~e.autoApply)
    IN  [k \in 1..Len(shown) |-> shown[k].ruleId]

\* a runAgent call after its first canAgentPerform
NewRun(a, task, agent) ==
    [agent |-> a, task |-> task, pc |-> "canCreateSkills",
     role |-> agent.role,
     canCreateAgents |-> CanAgentPerform(agent, "createAgent"),
     canCreateSkills |-> FALSE,
     prompt |-> NoPrompt, result |-> NoResult, executionTime |-> 0,
     perf |-> ZeroPerf, existing |-> NoAgent]

CallIds == 1..Len(regRuns)
CallsInFlight == {i \in CallIds : regRuns[i].pc # "done"}

\* runAgent(agentName, task), up to the reply to its first canAgentPerform
RunAgent(a, task) ==
    /\ redis.connected
    /\ Cardinality(CallsInFlight) < MaxInFlight
    /\ regRuns' = Append(regRuns, NewRun(a, task, StoredAgent(a)))
    /\ UNCHANGED <<memRules, memAgents, memSkills, patterns, redis, evals,
                   regLog>>
    /\ UNCHANGED <<poolVars, orchVars>>

\* runAgent from the second canAgentPerform to the request to the backend:
\* evaluateRules (given no metrics), trackPattern, the prompt
Prepare(i) ==
    /\ regRuns[i].pc = "canCreateSkills"
    /\ LET run == regRuns[i]
           agent == StoredAgent(run.agent)
           canCreateSkills == CanAgentPerform(agent, "createSkill")
           ruleEvaluations ==
               Evaluated(RuleContext(run.agent, NoMetrics), memRules, agent)
           taskPattern == ExtractPattern(run.task)
       IN  /\ evals' = ruleEvaluations
           /\ patterns' =
                 IF taskPattern.found
                 THEN TrackPattern(patterns, taskPattern.pattern,
                                   taskPattern.domain, run.task)
                 ELSE patterns
           /\ regRuns' =
                 [regRuns EXCEPT ![i].pc = "backend",
                     ![i].canCreateSkills = canCreateSkills,
                     ![i].prompt =
                         Prompt(run.canCreateAgents, canCreateSkills,
                                TriggeredSuggestions(ruleEvaluations.result))]
    /\ UNCHANGED <<memRules, memAgents, memSkills, redis, regLog>>
    /\ UNCHANGED <<poolVars, orchVars>>

\* createAgent: the definition stored under the id, over any that was there
CreateAgent(agents, request) ==
    [agents EXCEPT ![request.name] =
        AgentDef(IF request.role = "" THEN "specialist" ELSE request.role,
                 TRUE)]

\* this.memSkills.set(id, skill): an existing id keeps its place
SetSkill(skills, skill) ==
    IF \E k \in 1..Len(skills) : skills[k].id = skill.id
    THEN [k \in 1..Len(skills) |->
             IF skills[k].id = skill.id THEN skill ELSE skills[k]]
    ELSE Append(skills, skill)

\* the reply of the backend to call i: processAgentRequests with the
\* permissions read before the request, then the call of recordTaskCompletion
BackendReply(i, result, t) ==
    /\ regRuns[i].pc = "backend"
    /\ LET run == regRuns[i]
           createsAgent == /\ run.canCreateAgents
                           /\ result.agentRequest.present
                           /\ result.agentRequest.complete
           createsSkill == /\ run.canCreateSkills
                           /\ result.skillRequest.present
                           /\ result.skillRequest.complete
       IN  /\ memAgents' = IF createsAgent
                           THEN CreateAgent(memAgents, result.agentRequest)
                           ELSE memAgents
           /\ redis' = IF createsAgent
                       THEN [redis EXCEPT
                                !.agents = CreateAgent(@, result.agentRequest)]
                       ELSE redis
           /\ memSkills' = IF createsSkill
                           THEN SetSkill(memSkills,
                                    [id |-> result.skillRequest.name,
                                     createdBy |-> run.agent])
                           ELSE memSkills
           /\ regLog' =
                 regLog
                 \o (IF createsAgent
                     THEN <<LogEntry("createAgent", result.agentRequest.name, i)>>
                     ELSE <<>>)
                 \o (IF createsSkill
                     THEN <<LogEntry("createSkill", result.skillRequest.name, i)>>
                     ELSE <<>>)
           /\ regRuns' = [regRuns EXCEPT ![i].pc = "record",
                                         ![i].result = result,
                                         ![i].executionTime = t]
    /\ UNCHANGED <<memRules, patterns, evals>>
    /\ UNCHANGED <<poolVars, orchVars>>

\* recordTaskCompletion of call i from the reply to its getAgent: the
\* performance it read with this completion added, then the call of
\* updateAgent; an identity the registry does not know records nothing
RecordGet(i) ==
    /\ regRuns[i].pc = "record"
    /\ LET run == regRuns[i]
           agent == StoredAgent(run.agent)
       IN  regRuns' =
              IF ~agent.known THEN [regRuns EXCEPT ![i].pc = "done"]
              ELSE [regRuns EXCEPT ![i].pc = "update",
                       ![i].perf = Completed(PerfOf(agent),
                                             Success(run.result.text),
                                             run.executionTime, 0)]
    /\ UNCHANGED <<memRules, memAgents, memSkills, patterns, redis, evals,
                   regLog>>
    /\ UNCHANGED <<poolVars, orchVars>>

\* updateAgent of call i from the reply to its getAgent
UpdateAgentGet(i) ==
    /\ regRuns[i].pc = "update"
    /\ LET existing == StoredAgent(regRuns[i].agent)
       IN  regRuns' =
              IF ~existing.known THEN [regRuns EXCEPT ![i].pc = "done"]
              ELSE [regRuns EXCEPT ![i].pc = "set", ![i].existing = existing]
    /\ UNCHANGED <<memRules, memAgents, memSkills, patterns, redis, evals,
                   regLog>>
    /\ UNCHANGED <<poolVars, orchVars>>

UpdateAgentSet_Reread(i) ==
    /\ regRuns[i].pc = "set"
    /\ LET run == regRuns[i]
           pf == Completed(PerfOf(StoredAgent(run.agent)),
                           Success(run.result.text), run.executionTime, 0)
       IN  /\ redis' = [redis EXCEPT
                           !.agents = UpdatePerformance(@, run.agent,
                                                        run.existing, pf)]
           /\ memAgents' = UpdatePerformance(memAgents, run.agent,
                                             run.existing, pf)
    /\ regRuns' = [regRuns EXCEPT ![i].pc = "done"]
    /\ UNCHANGED <<memRules, memSkills, patterns, evals, regLog>>
    /\ UNCHANGED <<poolVars, orchVars>>

\* updateAgent of call i: the definition it re-read, with the performance
\* recordTaskCompletion computed, written to the store and to memAgents
UpdateAgentSet(i) ==
    /\ regRuns[i].pc = "set"
    /\ LET run == regRuns[i]
       IN  /\ redis' = [redis EXCEPT
                           !.agents = UpdatePerformance(@, run.agent,
                                                        run.existing, run.perf)]
           /\ memAgents' = UpdatePerformance(memAgents, run.agent,
                                             run.existing, run.perf)
    /\ regRuns' = [regRuns EXCEPT ![i].pc = "done"]
    /\ UNCHANGED <<memRules, memSkills, patterns, evals, regLog>>
    /\ UNCHANGED <<poolVars, orchVars>>

\* the registry with a store connected: "dev" was created through the
\* registry (and is in the store) or loaded from a file (and is not)
StoreOf(agents) == [connected |-> TRUE, agents |-> agents]
RunInit(devs) ==
    /\ RegOthersIdle
    /\ memRules = DEFAULT_RULES
    /\ \E dev \in devs :
          /\ memAgents = [a \in Agents |-> IF a = "dev" THEN dev ELSE NoAgent]
          /\ redis = StoreOf([a \in Agents |->
                                 IF a = "dev" /\ dev.hasPerf THEN dev
                                 ELSE NoAgent])
    /\ memSkills = <<>>
    /\ patterns = <<>>
    /\ regRuns = <<>>
    /\ evals = NoEval
    /\ regLog = <<>>

\* the steps of the calls in progress
RunSteps ==
    \/ \E i \in CallIds : Prepare(i)
    \/ \E i \in CallIds : RecordGet(i)
    \/ \E i \in CallIds : UpdateAgentGet(i)
    \/ \E i \in CallIds : UpdateAgentSet(i)

\* concurrent completions of "dev": results without request blocks
PerfResults == {Result(text, NoRequest, NoRequest) : text \in ResultTexts}
PerfInit == RunInit({AgentDef("specialist", created) : created \in BOOLEAN})
PerfNext ==
    \/ Len(regRuns) < MaxCalls /\ RunAgent("dev", TaskHello)
    \/ \E i \in CallIds, result \in PerfResults, t \in ExecTimes :
          BackendReply(i, result, t)
    \/ RunSteps
PerfSpec == PerfInit /\ [][PerfNext]_vars

\* ------------------------------------------------------------ property C26
\* the completions of an identity that have written its record
C26_Written(a) ==
    {i \in CallIds : regRuns[i].agent = a /\ regRuns[i].pc = "done"}

\* two completions that read the same record and both wrote
C26_Raced(i, j) ==
    /\ i # j
    /\ regRuns[i].perf.tasksCompleted = regRuns[j].perf.tasksCompleted

\* C26: completions of one identity are not serialized, and a completion
\* writes back the record it computed from what it read, over whatever the
\* store holds by then.  The stored record is always the one some written
\* completion computed, and when two written completions had read the same
\* record, the stored tasksCompleted counts fewer completions than were
\* written: an update was overwritten.
C26_ReadModifyWriteRace ==
    LET written == C26_Written("dev")
        stored == StoredAgent("dev")
    IN  /\ written # {} =>
              /\ stored.hasPerf
              /\ \E k \in written : stored.performance = regRuns[k].perf
        /\ \A i \in written, j \in written :
              C26_Raced(i, j) =>
                  stored.performance.tasksCompleted < Cardinality(written)

\* two calls, each finished: both read the record before either wrote it,
\* the record counts one completion and holds the time of one call only
C26_Witness ==
    /\ Len(regRuns) = 2
    /\ C26_Written("dev") = {1, 2}
    /\ C26_Raced(1, 2)
    /\ regRuns[1].executionTime # regRuns[2].executionTime
    /\ StoredAgent("dev").performance.tasksCompleted = 1
    /\ StoredAgent("dev").performance.avgExecutionTime
          \in {FloatOfNat(regRuns[1].executionTime),
               FloatOfNat(regRuns[2].executionTime)}
    /\ StoredAgent("dev").version = 3

\* ------------------------------------------------------------ property C27
\* the same letter, whatever its case
C27_SameLetter(c, d) ==
    c = d \/ \E n \in 1..26 : {c, d} = {UpperCase[n], LowerCase[n]}

\* the word occurs in the text, in any mix of cases
C27_Mentions(text, word) ==
    \E p \in 0..(Len(text) - Len(word)) :
        \A k \in 1..Len(word) : C27_SameLetter(text[p + k], word[k])

C27_Failed(text) ==
    \/ C27_Mentions(text, <<"f", "a", "i", "l", "e", "d">>)
    \/ C27_Mentions(text, <<"e", "r", "r", "o", "r">>)

\* what the completion of call i adds to the record it read, and that the
\* record it computed is the one written
C27_Step ==
    \A i \in CallIds :
        /\ (regRuns[i].pc = "record" /\ regRuns'[i].pc = "update") =>
              LET read == PerfOf(StoredAgent(regRuns[i].agent))
                  text == regRuns[i].result.text
              IN  /\ regRuns'[i].perf.tasksCompleted = read.tasksCompleted + 1
                  /\ regRuns'[i].perf.tasksSuccessful =
                        read.tasksSuccessful
                        + (IF C27_Failed(text) THEN 0 ELSE 1)
                  /\ text = TextNoErrorFound =>
                        regRuns'[i].perf.tasksSuccessful = read.tasksSuccessful
        /\ (regRuns[i].pc = "set" /\ regRuns'[i].pc = "done") =>
              /\ redis'.agents[regRuns[i].agent].performance = regRuns[i].perf
              /\ memAgents'[regRuns[i].agent].performance = regRuns[i].perf

\* C27: a completion of a registered identity is recorded with
\* tasksCompleted + 1, and with tasksSuccessful unchanged if and only if its
\* output contains "failed" or "error" in any mix of cases, else with
\* tasksSuccessful + 1; "no error found" is recorded as failed
C27_SuccessClassification == [][C27_Step]_vars

\* a first completion whose output was "no error found" is stored as failed
C27_Witness ==
    /\ Len(regRuns) = 1
    /\ regRuns[1].pc = "done"
    /\ regRuns[1].result.text = TextNoErrorFound
    /\ StoredAgent("dev").performance.tasksCompleted = 1
    /\ StoredAgent("dev").performance.tasksSuccessful = 0

\* permissions and suggestions: "dev" has any role and is given a task with
\* a pattern, "pm" is not known to the registry; the results hold request
\* blocks, complete or not, one of them for an agent named "dev"
PermResults ==
    { Result(TextDone, NoRequest, NoRequest),
      Result(TextDone, Request("dev", "support", TRUE),
                       Request("deploy", "", TRUE)),
      Result(TextDone, Request("pm", "manager", FALSE),
                       Request("deploy", "", FALSE)) }
PermInit ==
    RunInit({AgentDef(role, TRUE) : role \in RoleIds}
            \cup {AgentDef("manager", FALSE)})
PermNext ==
    \/ Len(regRuns) < MaxCalls /\ RunAgent("dev", TaskEndpoint)
    \/ Len(regRuns) < MaxCalls /\ RunAgent("pm", TaskHello)
    \/ \E i \in CallIds, result \in PermResults : BackendReply(i, result, 1000)
    \/ RunSteps
PermSpec == PermInit /\ [][PermNext]_vars

\* one task pattern again and again: "dev" may create skills, and is given
\* the same kind of task in every call
PatternResults ==
    { Result(TextDone, NoRequest, NoRequest),
      Result(TextNoErrorFound, NoRequest, Request("deploy", "", TRUE)) }
SuggestInit ==
    RunInit({AgentDef("specialist", TRUE), AgentDef("manager", FALSE)})
SuggestNext ==
    \/ Len(regRuns) < MaxPatternCalls /\ RunAgent("dev", TaskEndpoint)
    \/ \E i \in CallIds, result \in PatternResults :
          BackendReply(i, result, 1000)
    \/ RunSteps
SuggestSpec == SuggestInit /\ [][SuggestNext]_vars

\* ------------------------------------------------------------ property C28
\* the role the registry gives for an identity, "" if it knows none
C28_Role(a) == IF StoredAgent(a).known THEN StoredAgent(a).role ELSE ""

\* the identities the registry knows, with their roles
C28_Identities == [a \in Agents |-> C28_Role(a)]

\* a step of call i: which permission it reads, and what it may create
C28_Step ==
    \A i \in 1..Len(regRuns') :
        LET a == regRuns'[i].agent
        IN  /\ i \notin CallIds =>
                  regRuns'[i].canCreateAgents = (C28_Role(a) = "manager")
            /\ (i \in CallIds /\ regRuns[i].pc = "canCreateSkills"
                              /\ regRuns'[i].pc = "backend") =>
                  regRuns'[i].canCreateSkills
                      = (C28_Role(a) \in {"manager", "specialist"})
            /\ (i \in CallIds /\ regRuns[i].pc = "backend"
                              /\ regRuns'[i].pc = "record") =>
                  /\ C28_Identities' # C28_Identities =>
                          regRuns[i].canCreateAgents
                  /\ memSkills' # memSkills => regRuns[i].canCreateSkills
            /\ (i \in CallIds /\ regRuns[i].pc # "backend"
                              /\ regRuns'[i].pc # regRuns[i].pc) =>
                  /\ regLog' = regLog
                  /\ memSkills' = memSkills

\* what the calls have created so far
C28_Created ==
    \A k \in 1..Len(regLog) :
        /\ regLog[k].op = "createAgent" =>
              regRuns[regLog[k].val].role = "manager"
        /\ regLog[k].op = "createSkill" =>
              regRuns[regLog[k].val].canCreateSkills

\* C28: a call creates a Worker Identity from a new-agent request only if
\* the role of the invoking identity, as the registry gave it when the call
\* checked its permissions, is manager, and a skill from a new-skill request
\* only if that role is manager or specialist; a call invoked by a
\* support-role identity, or by one the registry does not know, creates
\* neither, whatever the result holds.  (The permission to create agents is
\* read when the call starts, the permission to create skills next, both
\* before the backend is asked.)
C28_RolePermission == [][C28_Step /\ C28_Created']_vars

\* a manager's call has created an identity and a skill; the call of an
\* identity the registry does not know got the same result and created none
C28_Witness ==
    /\ \E k \in 1..Len(regLog) :
          /\ regLog[k].op = "createAgent"
          /\ regRuns[regLog[k].val].role = "manager"
    /\ \E k \in 1..Len(regLog) : regLog[k].op = "createSkill"
    /\ \E i \in CallIds :
          /\ regRuns[i].agent = "pm"
          /\ regRuns[i].pc = "done"
          /\ regRuns[i].result.agentRequest.complete
          /\ \A k \in 1..Len(regLog) : regLog[k].val # i

\* ------------------------------------------------------------ property C29
\* the pattern of the task of call i has been tracked three times or more,
\* and the registry holds no skill
C29_AtThreshold(i) ==
    LET taskPattern == ExtractPattern(regRuns[i].task)
        k == PatternIndex(patterns, taskPattern.pattern)
    IN  /\ taskPattern.found
        /\ k # 0
        /\ patterns[k].occurrences >= 3
        /\ memSkills = <<>>

\* the call that builds its prompt at the threshold triggers the rule and
\* lists it in the prompt
C29_Step ==
    \A i \in CallIds :
        (/\ regRuns[i].pc = "canCreateSkills"
         /\ regRuns'[i].pc = "backend"
         /\ C29_AtThreshold(i)) =>
            /\ \E k \in 1..Len(evals'.result) :
                  evals'.result[k].ruleId = "create-skill-on-repetition"
            /\ \E k \in 1..Len(regRuns'[i].prompt.suggestions) :
                  regRuns'[i].prompt.suggestions[k]
                      = "create-skill-on-repetition"

\* C29: once a task pattern has been tracked three times or more and no
\* skill covers it, the next call for a task of that pattern triggers
\* create-skill-on-repetition and the suggestion is in the prompt sent to
\* the backend
C29_SkillSuggestedAtThreshold == [][C29_Step]_vars

\* ------------------------------------------------------------ property C30
\* the submissions that have resolved
C30_Resolved == {s \in SubIds : subs[s].st = "done"}

\* a chunk on the stdout of child p that reaches only listeners of
\* submissions that have resolved
C30_LateData(p) ==
    /\ Listeners(p) # {}
    /\ Listeners(p) \subseteq C30_Resolved
    /\ Data(p)

\* what a chunk on the stdout of child p does when the listeners of the
\* submissions that have resolved are left out
C30_WithoutResolved(p) ==
    EmitData([procs     |-> [procs EXCEPT ![p].prompts = Tail(@)],
              subs      |-> subs,
              taskQueue |-> taskQueue],
             p, Listeners(p) \ C30_Resolved, Head(procs[p].prompts))

C30_Step ==
    /\ \A s \in C30_Resolved : subs'[s] = subs[s]
    /\ \A p \in ProcIds :
          Data(p) => /\ procs' = C30_WithoutResolved(p).procs
                     /\ subs' = C30_WithoutResolved(p).subs
                     /\ taskQueue' = C30_WithoutResolved(p).taskQueue
    /\ \A p \in ProcIds :
          C30_LateData(p) =>
              /\ subs' = subs
              /\ taskQueue' = taskQueue
              /\ \A q \in ProcIds : procs'[q].busy = procs[q].busy

\* C30: a submission is resolved at most once.  Once it has resolved, by the
\* marker or by its timer, no step changes its result; the call of its
\* listener for a later output chunk changes nothing (the chunk does what it
\* would do without that listener), so a chunk that reaches only listeners
\* of resolved submissions changes neither a busy flag nor the queue and
\* dispatches nothing.  Its timer is cleared on completion, fires at most
\* once and tests `completed` like the listener.
C30_ResolvedAtMostOnce == [][C30_Step]_vars

\* a submission timed out and the answer of the child arrived afterwards,
\* when no other submission was waiting for output of that child: the result
\* is still the timeout, the session is free and nothing was dispatched
C30_Witness ==
    \E s \in C30_Resolved :
        /\ subs[s].result = "timeout"
        /\ procs[subs[s].inst].alive
        /\ procs[subs[s].inst].prompts = <<>>
        /\ ~procs[subs[s].inst].busy
        /\ Listeners(subs[s].inst) = {s}

\* ======================================================================
\* Pool: work conservation, result isolation, pool size, session ids
\* ======================================================================
\* ---------------------------------------------------------------- C31
IdleInPool == {p \in PoolInsts : ~procs[p].busy}

\* C31: work conservation: in every reachable state before shutdown(), if
\* the queue is not empty then no session of the pool is idle, so a queued
\* submission never waits while a free session exists (also right after
\* initialize() or when a replacement session has become ready).
C31_WorkConservation ==
    (~isShuttingDown /\ taskQueue # <<>>) => IdleInPool = {}

\* ---------------------------------------------------------------- C32
\* C32: result isolation between the submissions of one session: the output
\* returned for a submission, and the completion marker that resolves it,
\* come only from the session's answer to that submission's own prompt; the
\* late answer to an earlier, timed-out submission is never attributed to
\* and never completes the next submission dispatched to the session.
C32_ResultIsolation ==
    \A s \in SubIds : subs[s].output \subseteq {s}

\* ---------------------------------------------------------------------
\* Session lifecycle on its own: initialize(), readiness, the 30 s timer,
\* spawn errors, exits, backoff respawns and shutdown(), with room for
\* several replacement sessions.  No submission is made, so the queue and
\* the busy flags stay as constructed.
MaxSpawns == 5

LifecycleRespawn == Respawn(MaxSpawns)

LifecycleNext ==
    \/ Initialize
    \/ \E p \in ProcIds : SpawnReady(p)
    \/ \E p \in ProcIds : InitTimeout(p)
    \/ \E p \in ProcIds : ProcError(p)
    \/ \E p \in ProcIds : ProcExit(p)
    \/ LifecycleRespawn
    \/ Shutdown

LifecycleSpec == Init /\ [][LifecycleNext]_vars

\* ---------------------------------------------------------------- C33
Live == {p \in ProcIds : procs[p].alive}

C34_UniqueSessionIds ==
    \A p, q \in Live : procs[p].id = procs[q].id => p = q

\* ======================================================================
\* Orchestration: failure atomicity, sprint check, identities, follow-ups
\* ======================================================================
\* ---------------------------------------------------------------- C35
BackendFailed(r) == runs[r].pc = "thrown" /\ runs[r].exec = "failed"

\* C35: runAgent is all-or-nothing on a backend failure: after a call whose
\* backend invocation failed has thrown, the registry is as it was before
\* the call.  So while every call made so far has failed at the backend,
\* the registry is still as constructed: no completion recorded, no pattern
\* occurrence counted, and no planning continuation or follow-up scheduled.
C35_AllOrNothing ==
    (\A r \in RunIds : BackendFailed(r))
        => /\ perf = [a \in Agents |-> 0]
           /\ patternTracker = 0
           /\ followUps = <<>>
           /\ \A r \in RunIds : runs[r].plan = "none"

\* ---------------------------------------------------------------- C36
CallEnded(r) == runs[r].pc \in {"returned", "thrown"}

\* C36: no task is stranded by runSprintCheck: a task that a sprint check
\* has moved to in_progress has left in_progress (to done, or back to
\* backlog or ready) once that call has ended, also when runAgent threw.
\* Stated for the moments at which no call is pending, where no handler is
\* left that could still move the task.
C36_NoStrandedTask ==
    (\A r \in RunIds : CallEnded(r))
        => \A r \in RunIds :
              runs[r].origin = "sprint"
                 => tasks[runs[r].task].status # "in_progress"

\* ---------------------------------------------------------------------
\* Overlapping sprint checks.  With a remote task store (Redis or Postgres)
\* every `await taskDb...` of runSprintCheck is served by the event loop,
\* so other handlers run between the listTasks of line 431 and the
\* updateTask of line 440.  A call that has its list and has not yet
\* written is a record of `runs` with pc = "listed": nextTask (its id and
\* its owner) is the snapshot the list returned.
MaxChecks == 2

\* lines 431-438: listTasks, the early returns and nextTask = tasks[0]
SprintList ==
    LET ready == ListTasks(tasks, "default", "ready") IN
    /\ Len(runs) < MaxChecks
    /\ ready # <<>>
    /\ tasks[ready[1]].owner # NoOwner
    /\ runs' = Append(runs,
                  [StartRun(tasks[ready[1]].owner, "sprint", ready[1],
                            FALSE, TRUE) EXCEPT !.pc = "listed"])
    /\ UNCHANGED <<tasks, followUps, perf, patternTracker, onNotification>>
    /\ UNCHANGED <<poolVars, regVars>>

\* lines 440-445: updateTask(nextTask.id, { status: 'in_progress' }), then
\* runAgent(nextTask.owner, ...) up to its await on the backend
SprintStart(r) ==
    /\ runs[r].pc = "listed"
    /\ tasks' = UpdateTask(tasks, runs[r].task, [status |-> "in_progress"])
    /\ runs' = [runs EXCEPT ![r] = StartRun(runs[r].agent, "sprint",
                                            runs[r].task, FALSE, TRUE)]
    /\ patternTracker' = Tracked(TRUE)
    /\ UNCHANGED <<followUps, perf, onNotification>>
    /\ UNCHANGED <<poolVars, regVars>>

OverlapNext ==
    \/ SprintList
    \/ \E r \in RunIds : SprintStart(r)
    \/ \E r \in RunIds, evs \in BackendEvents, pr \in BOOLEAN :
          BackendDone(r, evs, pr)
    \/ \E r \in RunIds, ok \in BOOLEAN, pr \in BOOLEAN : NotifyDone(r, ok, pr)

OverlapSpec == SprintInit /\ [][OverlapNext]_vars

\* ---------------------------------------------------------------- C37
SprintRuns == {r \in RunIds : runs[r].origin = "sprint" /\ runs[r].pc # "listed"}

\* C37: a ready task is executed by at most one runSprintCheck: of two
\* overlapping sprint checks, at most one selects and runs a given task
\* (no task returns to ready here, so each task was promoted once).
C37_AtMostOneSprintRun ==
    \A r, q \in SprintRuns : runs[r].task = runs[q].task => r = q

\* ---------------------------------------------------------------- C38
\* The sprint check called again and again (the scheduler or the operator
\* keeps calling the endpoint), every backend and sink await settling: a
\* call that would change the state is eventually made, an await that is
\* pending eventually settles.
SprintFairSpec ==
    /\ SprintInit
    /\ [][SprintNext]_vars
    /\ WF_vars(RunSprintCheck)
    /\ WF_vars(\E r \in RunIds, pr \in BOOLEAN : BackendDone(r, <<"close0">>, pr))
    /\ WF_vars(\E r \in RunIds, pr \in BOOLEAN : NotifyDone(r, TRUE, pr))

OwnedReady(t) ==
    /\ t \in TaskIds
    /\ tasks[t].project = "default"
    /\ tasks[t].status = "ready"
    /\ tasks[t].owner # NoOwner

\* C38: sprint-check progress: a task of the default project that is ready
\* and has an owner is eventually run by the repeated sprint checks; a ready
\* task without owner of equal or higher priority does not block it forever.
C38_SprintProgress ==
    \A t \in 1..MaxBoard :
        OwnedReady(t) ~> (t \in TaskIds /\ tasks[t].status # "ready")

\* ---------------------------------------------------------------- C39
\* the identities for which this step has made a createAgent call
C39_CreatedNow ==
    {regLog'[k].key : k \in {j \in (Len(regLog) + 1)..Len(regLog') :
                                regLog'[j].op = "createAgent"}}

C39_Step ==
    \A a \in Agents :
        (StoredAgent(a).known /\ a \in C39_CreatedNow)
            => StoredAgent(a)' = StoredAgent(a)

\* C39: creating a worker identity never replaces an existing one: when
\* createAgent derives the id of an identity that is already registered,
\* the stored definition, its role and its performance record stay as they
\* were.
C39_CreateKeepsExisting == [][C39_Step]_vars

\* ---------------------------------------------------------------------
\* One follow-up chain.  The state right after one external trigger: a
\* single runAgent call (POST run-agent) awaits the backend; no task is on
\* the board and no other trigger follows.  The identities named in the
\* chain are not registered (loadAgentDefinition gives such an identity
\* its default prompt and recordTaskCompletion records nothing for it) and
\* the follow-up texts have no pattern, so a follow-up call changes no
\* counter of the registry.  `runs` holds the calls that are still alive:
\* a call that has settled and whose planning continuation has ended is
\* dropped when the next call is started.
ChainInit ==
    /\ procs = <<>>
    /\ pool = <<>>
    /\ taskQueue = <<>>
    /\ isShuttingDown = FALSE
    /\ respawnTimers = 0
    /\ now = 0
    /\ subs = <<>>
    /\ initState = "idle"
    /\ tasks = <<>>
    /\ followUps = <<>>
    /\ perf = [a \in Agents |-> 0]
    /\ patternTracker = 0
    /\ onNotification \in BOOLEAN
    /\ \E a \in Agents : runs = <<StartRun(a, "api", 0, FALSE, FALSE)>>
    /\ RegIdle

\* a call that can do nothing any more
Finished(run) ==
    run.pc \in {"returned", "thrown"} /\ run.plan # "scheduled"

\* the timer of line 414 fires: runAgent(plan.nextAgent, plan.nextTask)
ChainFollowUp ==
    LET alive == SelectSeq(runs, LAMBDA run : ~Finished(run)) IN
    /\ followUps # <<>>
    /\ Len(alive) < MaxRuns
    /\ runs' = Append(alive, StartRun(Head(followUps), "followup", 0,
                                      FALSE, FALSE))
    /\ followUps' = Tail(followUps)
    /\ UNCHANGED <<tasks, perf, patternTracker, onNotification>>
    /\ UNCHANGED <<poolVars, regVars>>

ChainBackend == \E r \in RunIds, evs \in BackendEvents :
                    BackendSettle(r, evs, FALSE, FALSE)
ChainNotify == \E r \in RunIds, ok \in BOOLEAN : NotifyDone(r, ok, FALSE)
ChainPlan == \E r \in RunIds, ans \in PlanAnswers(Len(tasks), Len(runs)) :
                 PlanAnswer(r, ans)

ChainNext ==
    \/ ChainBackend
    \/ ChainNotify
    \/ ChainPlan
    \/ ChainFollowUp

\* every await settles and every armed timer fires
ChainFairSpec ==
    /\ ChainInit
    /\ [][ChainNext]_vars
    /\ WF_vars(ChainBackend)
    /\ WF_vars(ChainNotify)
    /\ WF_vars(ChainPlan)
    /\ WF_vars(ChainFollowUp)

\* ---------------------------------------------------------------- C40
ChainEnded ==
    /\ followUps = <<>>
    /\ \A r \in RunIds : Finished(runs[r])

\* C40: follow-up chains terminate: from one externally triggered runAgent,
\* the chain runAgent -> planNextTasks -> delayed follow-up runAgent -> ...
\* starts only finitely many follow-up calls, whatever the backend answers:
\* eventually no call is alive and no follow-up is scheduled, for good.
C40_ChainsTerminate == <>[]ChainEnded

====
